---------------------------- MODULE Spec2Model ----------------------------
(***************************************************************************)
(* A model of the document ingestion and retrieval core of                 *)
(* pyxon-ai-entry-task: the ingestion orchestrator (_process_parsed), the  *)
(* two stores (VectorDB over two Chroma collections, SQLDB over four       *)
(* tables), the co-occurrence graph builder, the RAPTOR tree builder and   *)
(* the retrieval engine (routing, the four pipelines, Reciprocal Rank      *)
(* Fusion and deduplication).                                              *)
(*                                                                         *)
(* Conventions.  A Python str that the code slices, lower-cases, scans or  *)
(* compares lexicographically (document text, query text, entity names) is *)
(* a tuple of one-character strings.  A Python str that the code only      *)
(* builds by formatting and compares for equality (doc ids, chunk ids,     *)
(* mode names) is a TLA+ string.  A Python dict with optional keys is a    *)
(* record whose DOMAIN may lack the key.  Python's None is the string      *)
(* "None" where the value is otherwise a TLA+ string.                      *)
(***************************************************************************)
EXTENDS Integers, Sequences, FiniteSets, TLC

VARIABLES
    collection,         \* VectorDB._collection: the Chroma "documents" collection, in insertion order
    raptor_collection,  \* VectorDB._raptor_collection: the Chroma "raptor" collection
    documents,          \* SQLDB table documents, rows in rowid order
    chunks,             \* SQLDB table chunks
    graph_edges,        \* SQLDB table graph_edges
    entity_chunks,      \* SQLDB table entity_chunks
    passes,             \* one record per call of _process_parsed: its position, input, doc_id, outcome
    deleted,            \* per doc_id, which of the two delete calls have returned
    retrieval,          \* the outcome of the RetrievalEngine.retrieve call that has just returned
    arg,                \* input of the pure function under check
    ret,                \* its output
    called              \* which function has been applied to arg

vars == <<collection, raptor_collection, documents, chunks, graph_edges, entity_chunks,
          passes, deleted, retrieval, arg, ret, called>>

stores == <<collection, raptor_collection, documents, chunks, graph_edges, entity_chunks>>

-----------------------------------------------------------------------------
(* Bounds of the model. *)

MaxPasses == 2
MaxChunks == 2
MaxTopK == 2
MaxLists == 2
MaxListLen == 2
MaxResults == 3
MaxFragments == 2
MaxFaults == 1
MaxDeletes == 1
MaxGraphChunks == 3
MaxTreeChunks == 3
MaxClusters == 2
MaxChunkText == 4
MaxChunkSize == 3
MaxBlocks == 3
MaxParagraphs == 5
MaxAnalyzeText == 4
MaxRelatedChunks == 3

NONE == "None"

-----------------------------------------------------------------------------
(* Python str and list helpers. *)

Min(a, b) == IF a < b THEN a ELSE b

Max(a, b) == IF a > b THEN a ELSE b

Abs(a) == IF a < 0 THEN 0 - a ELSE a

\* s[:n]
Prefix(s, n) == SubSeq(s, 1, Min(Len(s), n))

\* d.get(field, default)
Get(item, field, default) == IF field \in DOMAIN item THEN item[field] ELSE default

\* bool(s) of a str or list
Truthy(s) == Len(s) > 0

Range(s) == {s[i] : i \in 1..Len(s)}

\* list(dict.fromkeys(s)): the first occurrence of each element, in order
RECURSIVE FromKeysLoop(_, _)
FromKeysLoop(s, acc) ==
    IF s = <<>> THEN acc
    ELSE FromKeysLoop(Tail(s), IF Head(s) \in Range(acc) THEN acc ELSE Append(acc, Head(s)))

FromKeys(s) == FromKeysLoop(s, <<>>)

\* [x for x in s if keep(x)]
RECURSIVE SelectLoop(_, _, _)
SelectLoop(s, keep(_), acc) ==
    IF s = <<>> THEN acc
    ELSE SelectLoop(Tail(s), keep, IF keep(Head(s)) THEN Append(acc, Head(s)) ELSE acc)

Select(s, keep(_)) == SelectLoop(s, keep, <<>>)

RECURSIVE Concat(_)
Concat(ss) == IF ss = <<>> THEN <<>> ELSE Head(ss) \o Concat(Tail(ss))

\* All sequences over S of length 0..n
SeqsUpTo(S, n) == UNION {[1..k -> S] : k \in 0..n}

-----------------------------------------------------------------------------
(* retrieval_engine.py: Reciprocal Rank Fusion and deduplication. *)

\* k: int = 60
RRF_K == 60

\* item.get("text", "")[:100]
RRF_KEY_CHARS == 100

\* r.get("text", "")[:80]
DEDUP_KEY_CHARS == 80

\* The float 1.0 of "1.0 / (k + rank)", scaled so that the quotient is an
\* exact integer for every rank 1..5; for larger ranks the quotient is
\* truncated, with an error below 1e-9 of the scale.
RRFOne == 61 * 62 * 63 * 64 * 65

\* key = str(item.get("id") or item.get("text", "")[:100])
RRFKey(item) ==
    LET id == Get(item, "id", <<>>)
    IN  IF Truthy(id) THEN id ELSE Prefix(Get(item, "text", <<>>), RRF_KEY_CHARS)

\* for lst in result_lists: for rank, item in enumerate(lst, 1): the
\* sequence of loop iterations, each with its key
RECURSIVE RankedItems(_)
RankedItems(result_lists) ==
    IF result_lists = <<>> THEN <<>>
    ELSE LET lst == Head(result_lists)
         IN  [rank \in 1..Len(lst) |->
                 [key |-> RRFKey(lst[rank]), rank |-> rank, item |-> lst[rank]]]
             \o RankedItems(Tail(result_lists))

\* scores[key] = scores.get(key, 0) + 1.0 / (k + rank), over all iterations
RECURSIVE RRFScoreUpTo(_, _, _)
RRFScoreUpTo(occ, key, n) ==
    IF n = 0 THEN 0
    ELSE RRFScoreUpTo(occ, key, n - 1)
         + (IF occ[n].key = key THEN RRFOne \div (RRF_K + occ[n].rank) ELSE 0)

RRFScore(occ, key) == RRFScoreUpTo(occ, key, Len(occ))

\* seen[key]: the item of the first iteration with that key
RRFSeen(occ, key) ==
    occ[CHOOSE i \in 1..Len(occ) :
            /\ occ[i].key = key
            /\ \A j \in 1..(i - 1) : occ[j].key # key].item

\* A sort of the keys by ascending score.
SortedKeys_ascending(keys, occ) ==
    LET ByScore(n, sc) ==
            LET pos(i) == 1 + Cardinality({j \in 1..n : sc[j] < sc[i] \/ (sc[j] = sc[i] /\ j < i)})
            IN  [p \in 1..n |-> keys[CHOOSE i \in 1..n : pos(i) = p]]
    IN  ByScore(Len(keys), [i \in 1..Len(keys) |-> RRFScore(occ, keys[i])])

\* sorted(scores.keys(), key=lambda x: -scores[x]): a stable sort of the
\* keys, which a dict holds in insertion order
SortedKeys(keys, occ) ==
    LET ByScore(n, sc) ==
            LET pos(i) == 1 + Cardinality({j \in 1..n : sc[j] > sc[i] \/ (sc[j] = sc[i] /\ j < i)})
            IN  [p \in 1..n |-> keys[CHOOSE i \in 1..n : pos(i) = p]]
    IN  ByScore(Len(keys), [i \in 1..Len(keys) |-> RRFScore(occ, keys[i])])

reciprocal_rank_fusion(result_lists) ==
    LET Items(occ, sorted_keys) == [i \in 1..Len(sorted_keys) |-> RRFSeen(occ, sorted_keys[i])]
        Fused(occ) == Items(occ, SortedKeys(FromKeys([i \in 1..Len(occ) |-> occ[i].key]), occ))
    IN  Fused(RankedItems(result_lists))

\* k = r.get(key) or r.get("text", "")[:80]
DedupKey(r) ==
    LET id == Get(r, "id", <<>>)
    IN  IF Truthy(id) THEN id ELSE Prefix(Get(r, "text", <<>>), DEDUP_KEY_CHARS)

RECURSIVE DedupLoop(_, _, _)
DedupLoop(results, seen, out) ==
    IF results = <<>> THEN out
    ELSE LET r == Head(results)
             k == DedupKey(r)
         IN  IF k \notin seen
             THEN DedupLoop(Tail(results), seen \cup {k}, Append(out, r))
             ELSE DedupLoop(Tail(results), seen, out)

\* A deduplication that never records what it has emitted.
deduplicate_results_forgets_seen(results) == results

deduplicate_results(results) == DedupLoop(results, {}, <<>>)

-----------------------------------------------------------------------------
(* retrieval_engine.py: routing. *)

UpperChars ==
    <<"A", "B", "C", "D", "E", "F", "G", "H", "I", "J", "K", "L", "M",
      "N", "O", "P", "Q", "R", "S", "T", "U", "V", "W", "X", "Y", "Z">>

LowerChars ==
    <<"a", "b", "c", "d", "e", "f", "g", "h", "i", "j", "k", "l", "m",
      "n", "o", "p", "q", "r", "s", "t", "u", "v", "w", "x", "y", "z">>

UpperSet == Range(UpperChars)

LowerSet == Range(LowerChars)

IsUpper(c) == c \in UpperSet

IsLower(c) == c \in LowerSet

LowerChar(c) ==
    IF IsUpper(c) THEN LowerChars[CHOOSE i \in 1..26 : UpperChars[i] = c] ELSE c

\* str.lower()
Lower(s) == [i \in 1..Len(s) |-> LowerChar(s[i])]

\* w in q
Contains(q, w) ==
    \E i \in 1..(Len(q) - Len(w) + 1) : SubSeq(q, i, i + Len(w) - 1) = w

\* ("related", "connection", "between", "relationship", "connect")
GraphWords ==
    {<<"r", "e", "l", "a", "t", "e", "d">>,
     <<"c", "o", "n", "n", "e", "c", "t", "i", "o", "n">>,
     <<"b", "e", "t", "w", "e", "e", "n">>,
     <<"r", "e", "l", "a", "t", "i", "o", "n", "s", "h", "i", "p">>,
     <<"c", "o", "n", "n", "e", "c", "t">>}

\* ("summarize", "overview", "main points", "summary")
RaptorWords ==
    {<<"s", "u", "m", "m", "a", "r", "i", "z", "e">>,
     <<"o", "v", "e", "r", "v", "i", "e", "w">>,
     <<"m", "a", "i", "n", " ", "p", "o", "i", "n", "t", "s">>,
     <<"s", "u", "m", "m", "a", "r", "y">>}

\* A routing that tests the summary words first.
route_mode_summary_first(query) ==
    LET Route(q) ==
            IF \E w \in RaptorWords : Contains(q, w) THEN "raptor"
            ELSE IF \E w \in GraphWords : Contains(q, w) THEN "graph"
            ELSE "vector"
    IN  Route(Lower(query))

route_mode(query) ==
    LET Route(q) ==
            IF \E w \in GraphWords : Contains(q, w) THEN "graph"
            ELSE IF \E w \in RaptorWords : Contains(q, w) THEN "raptor"
            ELSE "vector"
    IN  Route(Lower(query))

\* mode = mode or self._route_mode(query)
EffectiveMode(mode, query) == IF mode = NONE \/ mode = "" THEN route_mode(query) ELSE mode

Modes == {"vector", "graph", "raptor", "hybrid"}

\* The if-chain of retrieve: which pipeline serves the effective mode; an
\* unknown mode falls through to the vector search of the last line.
Pipeline(mode, query) ==
    LET Branch(m) ==
            IF m = "vector" THEN "vector"
            ELSE IF m = "graph" THEN "graph"
            ELSE IF m = "raptor" THEN "raptor"
            ELSE IF m = "hybrid" THEN "hybrid"
            ELSE "vector"
    IN  Branch(EffectiveMode(mode, query))

-----------------------------------------------------------------------------
(* entity_extractor.py.  The configuration modelled is the one without the *)
(* spaCy model, in which extract_entities reaches _extract_entities_fallback*)
(* for every language code; the texts of the model hold no Arabic letter,  *)
(* so the fallback's Arabic branch adds nothing.  A Python set iterates in *)
(* an unspecified order; the model lists the entities in order of first    *)
(* match.                                                                  *)

\* The characters of the model in code point order.
Ascii ==
    <<"\t", "\n", " ", ",">> \o <<"0", "1", "2", "3", "4", "5", "6", "7", "8", "9">>
    \o UpperChars \o <<"_">> \o LowerChars

CharCode(c) == CHOOSE i \in 1..Len(Ascii) : Ascii[i] = c

IsSpace(c) == c \in {" ", "\n", "\t"}

WordChar(c) == IsUpper(c) \/ IsLower(c) \/ c \in {"0", "1", "2", "3", "4", "5", "6", "7", "8", "9"} \/ c = "_"

WordAt(text, i) == i >= 1 /\ i <= Len(text) /\ WordChar(text[i])

\* \b between text[i-1] and text[i]
BoundaryBefore(text, i) == WordAt(text, i - 1) # WordAt(text, i)

\* [a-z]* from i: the index of its last character (i - 1 when empty)
RECURSIVE LowerRunEnd(_, _)
LowerRunEnd(text, i) ==
    IF i <= Len(text) /\ IsLower(text[i]) THEN LowerRunEnd(text, i + 1) ELSE i - 1

\* \s* from i
RECURSIVE SpaceRunEnd(_, _)
SpaceRunEnd(text, i) ==
    IF i <= Len(text) /\ IsSpace(text[i]) THEN SpaceRunEnd(text, i + 1) ELSE i - 1

\* [A-Z][a-z]+ at i: the index of its last character, 0 when it does not match
CapWordEnd(text, i) ==
    IF i + 1 <= Len(text) /\ IsUpper(text[i]) /\ IsLower(text[i + 1])
    THEN LowerRunEnd(text, i + 1)
    ELSE 0

\* (?:\s+[A-Z][a-z]+)*\b after a capitalized word ending at e: the end of
\* the longest match (the group is greedy and backtracks), 0 when none
RECURSIVE PhraseEnd(_, _)
PhraseEnd(text, e) ==
    LET Longest(longer) ==
            IF longer > 0 THEN longer
            ELSE IF BoundaryBefore(text, e + 1) THEN e
            ELSE 0
        NextWord(w) == Longest(IF w > 0 THEN PhraseEnd(text, w) ELSE 0)
        AfterSpaces(s) == NextWord(IF s > e THEN CapWordEnd(text, s + 1) ELSE 0)
    IN  AfterSpaces(SpaceRunEnd(text, e + 1))

\* \b[A-Z][a-z]+(?:\s+[A-Z][a-z]+)*\b at i
MatchEndAt(text, i) ==
    LET Phrase(e) == IF e > 0 THEN PhraseEnd(text, e) ELSE 0
    IN  IF BoundaryBefore(text, i) THEN Phrase(CapWordEnd(text, i)) ELSE 0

\* re.findall: the non-overlapping matches, leftmost first
RECURSIVE FindAllFrom(_, _, _)
FindAllFrom(text, i, acc) ==
    LET Step(e) ==
            IF e > 0 THEN FindAllFrom(text, e + 1, Append(acc, SubSeq(text, i, e)))
            ELSE FindAllFrom(text, i + 1, acc)
    IN  IF i > Len(text) THEN acc ELSE Step(MatchEndAt(text, i))

LenIn2To80(c) == 2 <= Len(c) /\ Len(c) <= 80

\* A fallback extractor that returns every match, repeated matches as well.
extract_entities_fallback_every_match(text) ==
    Prefix(Select(FindAllFrom(text, 1, <<>>), LenIn2To80), 30)

extract_entities_fallback(text) ==
    Prefix(FromKeys(Select(FindAllFrom(text, 1, <<>>), LenIn2To80)), 30)

\* not text or not text.strip()
Blank(text) == \A i \in 1..Len(text) : IsSpace(text[i])

extract_entities(text) == IF Blank(text) THEN <<>> ELSE extract_entities_fallback(text)

\* a < b of two str: lexicographic by code point
RECURSIVE StrLess(_, _)
StrLess(a, b) ==
    IF b = <<>> THEN FALSE
    ELSE IF a = <<>> THEN TRUE
    ELSE IF Head(a) = Head(b) THEN StrLess(Tail(a), Tail(b))
    ELSE CharCode(Head(a)) < CharCode(Head(b))

-----------------------------------------------------------------------------
(* graph_builder.py *)

\* f"{doc_id}_{i}"
\* A chunk id that counts the chunks from one.
ChunkId_from_one(doc_id, i) == doc_id \o "_" \o ToString(i + 1)

ChunkId(doc_id, i) == doc_id \o "_" \o ToString(i)

\* A key that keeps the order in which the loops met the two entities.
SortedPair_as_met(a, b) == <<a, b>>

\* tuple(sorted([a, b]))
SortedPair(a, b) == IF StrLess(b, a) THEN <<b, a>> ELSE <<a, b>>

\* for i_a, a in enumerate(entities): for b in entities[i_a + 1:]: if a != b:
\* the keys the two loops visit, in order
RECURSIVE PairKeys(_)
PairKeys(entities) ==
    LET Pairs(a, others) == [j \in 1..Len(others) |-> SortedPair(a, others[j])]
        differs(b) == Head(entities) # b
    IN  IF entities = <<>> THEN <<>>
        ELSE Pairs(Head(entities), Select(Tail(entities), differs)) \o PairKeys(Tail(entities))

LongerThan1(e) == Len(e) > 1

\* The entities of one chunk as the builder uses them.
ChunkEntities(chunk) == Select(extract_entities(chunk.text), LongerThan1)

\* The loop over the chunks: for every chunk with text, its id string, its
\* entities and its pair keys
ChunkFacts(chunks_arg, doc_id) ==
    LET hasText(i) == Truthy(chunks_arg[i].text)
        Fact(chunk_idx, ents) ==
            [chunk_id |-> IF doc_id # NONE /\ doc_id # "" THEN ChunkId(doc_id, chunk_idx)
                                                           ELSE ToString(chunk_idx),
             entities |-> ents,
             keys |-> PairKeys(ents)]
        FactOf(i) == Fact(Get(chunks_arg[i].metadata, "chunk_index", i - 1),
                          ChunkEntities(chunks_arg[i]))
        Facts(idx) == [n \in 1..Len(idx) |-> FactOf(idx[n])]
    IN  Facts(Select([i \in 1..Len(chunks_arg) |-> i], hasText))

\* Number of elements of s equal to x
RECURSIVE Count(_, _)
Count(s, x) == IF s = <<>> THEN 0 ELSE (IF Head(s) = x THEN 1 ELSE 0) + Count(Tail(s), x)

\* build_cooccurrence_edges(chunks, doc_id): [edges, entity_chunks], each
\* dict as the sequence of its items in insertion order
build_cooccurrence_edges(chunks_arg, doc_id) ==
    LET Edges(allKeys, keys) ==
            [n \in 1..Len(keys) |-> <<keys[n][1], keys[n][2], Count(allKeys, keys[n])>>]
        ChunkIds(ms) == [j \in 1..Len(ms) |-> ms[j].chunk_id]
        IdsOf(mentions, e) == LET mine(m) == m.entity = e IN ChunkIds(Select(mentions, mine))
        EntityChunks(mentions, ents) ==
            [n \in 1..Len(ents) |-> [entity |-> ents[n], chunk_ids |-> IdsOf(mentions, ents[n])]]
        Mentions(fact) ==
            [j \in 1..Len(fact.entities) |->
                [entity |-> fact.entities[j], chunk_id |-> fact.chunk_id]]
        Items(allKeys, mentions) ==
            [edges |-> Edges(allKeys, FromKeys(allKeys)),
             entity_chunks |->
                 EntityChunks(mentions, FromKeys([m \in 1..Len(mentions) |-> mentions[m].entity]))]
        Built(facts) ==
            Items(Concat([n \in 1..Len(facts) |-> facts[n].keys]),
                  Concat([n \in 1..Len(facts) |-> Mentions(facts[n])]))
    IN  Built(ChunkFacts(chunks_arg, doc_id))

-----------------------------------------------------------------------------
(* vector_db.py.  The embedding model and Chroma's nearest-neighbour       *)
(* search are external; the model stands in a one-dimensional embedding    *)
(* (the length of the text) and ranks by absolute difference, ties in      *)
(* insertion order.                                                        *)

\* self.model.encode([text])
Encode(text) == Len(text)

Distance(query, text) == Abs(Encode(query) - Encode(text))

\* doc_id is given: "if doc_id:"
Given(doc_id) == doc_id # NONE /\ doc_id # ""

\* VectorDB.add_chunks: the records it adds to the collection
ChunkRecords(chunks_arg, doc_id) ==
    [i \in 1..Len(chunks_arg) |->
        [id |-> ChunkId(doc_id, i - 1),
         text |-> chunks_arg[i].text,
         metadata |-> [doc_id |-> doc_id, chunk_index |-> i - 1]]]

add_chunks(coll, chunks_arg, doc_id) ==
    IF chunks_arg = <<>> THEN coll ELSE coll \o ChunkRecords(chunks_arg, doc_id)

\* collection.query(query_embeddings, n_results, where): the n_results
\* nearest records among those the filter keeps, nearest first
QueryCollection(coll, query, n_results, where(_)) ==
    LET Nearest(cand, n, d) ==
            LET pos(i) == 1 + Cardinality({j \in 1..n : d[j] < d[i] \/ (d[j] = d[i] /\ j < i)})
                Record(i) == [id |-> cand[i].id, text |-> cand[i].text,
                              metadata |-> cand[i].metadata, distance |-> d[i]]
            IN  [p \in 1..Min(n_results, n) |-> Record(CHOOSE i \in 1..n : pos(i) = p)]
        Query(cand) ==
            Nearest(cand, Len(cand), [i \in 1..Len(cand) |-> Distance(query, cand[i].text)])
    IN  Query(Select(coll, where))

\* VectorDB.search(query, top_k, doc_id)
search(coll, query, top_k, doc_id) ==
    LET ofDoc(r) == r.metadata.doc_id = doc_id
        \* where = {"doc_id": doc_id} if doc_id else None
        where(r) == Given(doc_id) => ofDoc(r)
        Results(count) ==
            IF count = 0 THEN <<>> ELSE QueryCollection(coll, query, Min(top_k, count), where)
    IN  Results(IF Given(doc_id) THEN Len(Select(coll, ofDoc))
                ELSE IF Len(coll) = 0 THEN 1 ELSE Len(coll))

\* The collaborator call of a retrieve call that raises when it is made:
\* SQLDB.get_related_entities, SQLDB.get_chunk_ids_for_entities, the
\* collection.get inside VectorDB.get_by_ids, VectorDB.search_raptor.
NoFault == "none"

Faults == {"get_related_entities", "get_chunk_ids_for_entities", "collection.get", "search_raptor"}

\* VectorDB.get_by_ids(ids): try: r = self._collection.get(...) except Exception: return []
get_by_ids(coll, ids, fault) ==
    LET wanted(r) == r.id \in Range(ids)
        Output(found) ==
            [i \in 1..Len(found) |->
                [id |-> found[i].id, text |-> found[i].text, metadata |-> found[i].metadata]]
    IN  IF ids = <<>> \/ fault = "collection.get" THEN <<>> ELSE Output(Select(coll, wanted))

\* VectorDB.add_raptor_nodes(nodes): metadata values cleaned, raptor_level as str
add_raptor_nodes(rcoll, nodes) ==
    IF nodes = <<>> THEN rcoll
    ELSE rcoll \o [i \in 1..Len(nodes) |->
             [id |-> nodes[i].chunk_id,
              text |-> nodes[i].text,
              metadata |-> [nodes[i].metadata EXCEPT
                                !.raptor_level = ToString(nodes[i].metadata.raptor_level)]]]

\* def search_raptor(self, query, top_k=5, level=None): the parameters a
\* caller may pass by keyword
search_raptor_params == {"query", "top_k", "level"}

\* VectorDB.search_raptor(query, top_k, level); level=None is a negative level
search_raptor(rcoll, query, top_k, level) ==
    LET \* where = {"raptor_level": str(level)} if level is not None else None
        where(r) == level >= 0 => r.metadata.raptor_level = ToString(level)
    IN  IF Len(rcoll) = 0 THEN <<>>
        ELSE QueryCollection(rcoll, query, Min(top_k, Len(rcoll)), where)

\* What delete leaves of a collection or table: the rows of other documents.
WithoutDoc(rows, DocOf(_), doc_id) ==
    LET other(r) == DocOf(r) # doc_id IN Select(rows, other)

MetaDoc(r) == r.metadata.doc_id

RowDoc(r) == r.doc_id

RowId(r) == r.id

\* VectorDB.delete_raptor_by_doc_id(doc_id)
delete_raptor_by_doc_id(rcoll, doc_id) == WithoutDoc(rcoll, MetaDoc, doc_id)

\* VectorDB.delete_by_doc_id(doc_id): the two collections after the call
delete_by_doc_id(coll, rcoll, doc_id) ==
    [collection |-> WithoutDoc(coll, MetaDoc, doc_id),
     raptor_collection |-> delete_raptor_by_doc_id(rcoll, doc_id)]

-----------------------------------------------------------------------------
(* raptor.py.  KMeans is external: its labels (one cluster number per      *)
(* chunk) are an input, and a cluster's centroid is the mean of its        *)
(* members' embeddings.                                                    *)

\* n_clusters: int = 4
N_CLUSTERS == 4

RECURSIVE SumSeq(_)
SumSeq(s) == IF s = <<>> THEN 0 ELSE Head(s) + SumSeq(Tail(s))

\* for i, (chunk, _) in enumerate(zip(chunks, embeddings)): the level-0 nodes
Level0Nodes(chunks_arg, embeddings, doc_id) ==
    [i \in 1..Min(Len(chunks_arg), Len(embeddings)) |->
        [text |-> Get(chunks_arg[i], "text", <<>>),
         chunk_id |-> ChunkId(doc_id, i - 1),
         metadata |-> [doc_id |-> doc_id, raptor_level |-> 0, chunk_index |-> i - 1]]]

\* A level-1 node that carries the text of the first member of its cluster.
Level1Node_first_member(chunks_arg, embeddings, doc_id, labels, c) ==
    LET inCluster(i) == labels[i] = c
        Node(indices, m) ==
            << [text |-> Get(chunks_arg[indices[1]], "text", <<>>),
                chunk_id |-> doc_id \o "_L1_" \o ToString(c),
                metadata |-> [doc_id |-> doc_id, raptor_level |-> 1,
                              represents |-> [j \in 1..m |-> ChunkId(doc_id, indices[j] - 1)]]] >>
        Members(indices) == IF indices = <<>> THEN <<>> ELSE Node(indices, Len(indices))
    IN  Members(Select([i \in 1..Len(labels) |-> i], inCluster))

\* The level-1 node of cluster c, as a list of zero or one node
Level1Node(chunks_arg, embeddings, doc_id, labels, c) ==
    LET inCluster(i) == labels[i] = c
        Node(indices, m, nearest) ==
            << [text |-> Get(chunks_arg[indices[nearest]], "text", <<>>),
                chunk_id |-> doc_id \o "_L1_" \o ToString(c),
                metadata |-> [doc_id |-> doc_id, raptor_level |-> 1,
                              represents |-> [j \in 1..m |-> ChunkId(doc_id, indices[j] - 1)]]] >>
        Cluster(indices, m, total) ==
            LET \* |embedding - centroid|, times the cluster size
                dist(j) == Abs(m * embeddings[indices[j]] - total)
            IN  \* np.argmin: the first minimum
                Node(indices, m, CHOOSE j \in 1..m :
                                     /\ \A o \in 1..m : dist(j) <= dist(o)
                                     /\ \A o \in 1..(j - 1) : dist(o) > dist(j))
        Members(indices) ==
            IF indices = <<>> THEN <<>>
            ELSE Cluster(indices, Len(indices),
                         SumSeq([j \in 1..Len(indices) |-> embeddings[indices[j]]]))
    \* indices = np.where(labels == c)[0]: labels has one entry per embedding
    IN  Members(Select([i \in 1..Len(labels) |-> i], inCluster))

\* A builder that clusters however few chunks there are.
build_raptor_tree_clusters_always(chunks_arg, embeddings, doc_id, n_clusters, labels) ==
    LET Tree(level0) ==
            level0 \o Concat([c1 \in 1..Min(n_clusters, Len(chunks_arg)) |->
                          Level1Node(chunks_arg, embeddings, doc_id, labels, c1 - 1)])
    IN  IF chunks_arg = <<>> \/ embeddings = <<>> THEN <<>>
        ELSE Tree(Level0Nodes(chunks_arg, embeddings, doc_id))

\* build_raptor_tree(chunks, embeddings, doc_id, n_clusters); labels is the
\* result of kmeans.fit_predict(emb), the centroid of a cluster the mean of
\* its members
build_raptor_tree(chunks_arg, embeddings, doc_id, n_clusters, labels) ==
    LET Tree(level0) ==
            IF Len(chunks_arg) <= n_clusters THEN level0
            ELSE level0 \o Concat([c1 \in 1..Min(n_clusters, Len(chunks_arg)) |->
                               Level1Node(chunks_arg, embeddings, doc_id, labels, c1 - 1)])
    IN  IF chunks_arg = <<>> \/ embeddings = <<>> THEN <<>>
        ELSE Tree(Level0Nodes(chunks_arg, embeddings, doc_id))

build_raptor_tree_with_model(chunks_arg, doc_id, labels) ==
    build_raptor_tree(chunks_arg,
                      [i \in 1..Len(chunks_arg) |-> Encode(Get(chunks_arg[i], "text", <<>>))],
                      doc_id, N_CLUSTERS, labels)

-----------------------------------------------------------------------------
(* sql_db.py.  A table is the sequence of its rows in rowid order; the     *)
(* autoincrement id of graph_edges and entity_chunks, which nothing reads, *)
(* is left out.                                                            *)

\* SQLDB.add_document: the two tables after the commit
add_document(docs, chunk_rows, filename, chunks_arg, doc_id) ==
    [documents |-> Append(docs, [id |-> doc_id, filename |-> filename]),
     chunks |-> chunk_rows \o [i \in 1..Len(chunks_arg) |->
                    [id |-> ChunkId(doc_id, i - 1), doc_id |-> doc_id, chunk_index |-> i - 1]]]

\* A delete_document that leaves the entity_chunks rows behind.
delete_document_keeps_entity_chunks(docs, chunk_rows, edge_rows, ec_rows, doc_id) ==
    [documents |-> WithoutDoc(docs, RowId, doc_id),
     chunks |-> WithoutDoc(chunk_rows, RowDoc, doc_id),
     graph_edges |-> WithoutDoc(edge_rows, RowDoc, doc_id),
     entity_chunks |-> ec_rows]

\* SQLDB.delete_document: the four tables after the commit
delete_document(docs, chunk_rows, edge_rows, ec_rows, doc_id) ==
    [documents |-> WithoutDoc(docs, RowId, doc_id),
     chunks |-> WithoutDoc(chunk_rows, RowDoc, doc_id),
     graph_edges |-> WithoutDoc(edge_rows, RowDoc, doc_id),
     entity_chunks |-> WithoutDoc(ec_rows, RowDoc, doc_id)]

\* A graph store that keeps one row per entity pair, whatever the document.
RECURSIVE MergeEdges(_, _, _)
MergeEdges(edge_rows, doc_id, edges) ==
    IF edges = <<>> THEN edge_rows
    ELSE LET e == Head(edges)
             hit == {i \in 1..Len(edge_rows) :
                        edge_rows[i].source = e[1] /\ edge_rows[i].target = e[2]}
             merged == [i \in 1..Len(edge_rows) |->
                           IF i \in hit THEN [edge_rows[i] EXCEPT !.weight = @ + e[3]]
                           ELSE edge_rows[i]]
             added == Append(edge_rows, [doc_id |-> doc_id, source |-> e[1],
                                         target |-> e[2], weight |-> e[3]])
         IN  MergeEdges(IF hit = {} THEN added ELSE merged, doc_id, Tail(edges))

add_graph_edges_merging(edge_rows, doc_id, edges) == MergeEdges(edge_rows, doc_id, edges)

\* SQLDB.add_graph_edges
add_graph_edges(edge_rows, doc_id, edges) ==
    edge_rows \o [i \in 1..Len(edges) |->
        [doc_id |-> doc_id, source |-> edges[i][1], target |-> edges[i][2], weight |-> edges[i][3]]]

\* SQLDB.add_entity_chunks
add_entity_chunks(ec_rows, doc_id, ec) ==
    ec_rows \o Concat([i \in 1..Len(ec) |->
        [j \in 1..Len(ec[i].chunk_ids) |->
            [entity |-> ec[i].entity, chunk_id |-> ec[i].chunk_ids[j], doc_id |-> doc_id]]])

\* The entity_chunks rows the query of get_chunk_ids_for_entities matches.
EntityChunkMatch(r, entities, doc_id) ==
    r.entity \in Range(entities) /\ (Given(doc_id) => r.doc_id = doc_id)

\* A lookup that drops the doc_id filter.
get_chunk_ids_for_entities_unscoped(ec_rows, entities, limit, doc_id) ==
    LET match(r) == r.entity \in Range(entities)
        ChunkIds(rows) == FromKeys([i \in 1..Len(rows) |-> rows[i].chunk_id])
    IN  IF entities = <<>> THEN <<>> ELSE ChunkIds(Prefix(Select(ec_rows, match), limit))

\* SQLDB.get_chunk_ids_for_entities(entities, limit, doc_id)
get_chunk_ids_for_entities(ec_rows, entities, limit, doc_id) ==
    LET match(r) == EntityChunkMatch(r, entities, doc_id)
        ChunkIds(rows) == FromKeys([i \in 1..Len(rows) |-> rows[i].chunk_id])
    IN  IF entities = <<>> THEN <<>> ELSE ChunkIds(Prefix(Select(ec_rows, match), limit))

\* order_by(GraphEdge.weight.desc()): heaviest first, equal weights in rowid order
ByWeightDesc(rows, WeightOf(_)) ==
    LET n == Len(rows)
        pos(i) == 1 + Cardinality({j \in 1..n :
                        \/ WeightOf(rows[j]) > WeightOf(rows[i])
                        \/ (WeightOf(rows[j]) = WeightOf(rows[i]) /\ j < i)})
    IN  [p \in 1..n |-> rows[CHOOSE i \in 1..n : pos(i) = p]]

RowWeight(r) == r.weight

PairWeight(t) == t[2]

\* The two queries of get_related_entities: rows leaving and rows entering the entity.
SourceMatch(r, entity, doc_id) == r.source = entity /\ (Given(doc_id) => r.doc_id = doc_id)

TargetMatch(r, entity, doc_id) == r.target = entity /\ (Given(doc_id) => r.doc_id = doc_id)

\* for r in rows2: if r.source not in seen: result.append(...); seen.add(...)
RECURSIVE AppendUnseen(_, _, _)
AppendUnseen(rows2, seen, result) ==
    IF rows2 = <<>> THEN result
    ELSE LET r == Head(rows2)
         IN  IF r.source \notin seen
             THEN AppendUnseen(Tail(rows2), seen \cup {r.source}, Append(result, <<r.source, r.weight>>))
             ELSE AppendUnseen(Tail(rows2), seen, result)

\* SQLDB.get_related_entities(entity, top_k, doc_id)
get_related_entities(edge_rows, entity, top_k, doc_id) ==
    LET fromSource(r) == SourceMatch(r, entity, doc_id)
        fromTarget(r) == TargetMatch(r, entity, doc_id)
        Result(rows) == [i \in 1..Len(rows) |-> <<rows[i].target, rows[i].weight>>]
        Related(result, rows2) ==
            Prefix(ByWeightDesc(AppendUnseen(rows2, {entity}, result), PairWeight), top_k)
    IN  Related(Result(Prefix(ByWeightDesc(Select(edge_rows, fromSource), RowWeight), top_k)),
                Prefix(ByWeightDesc(Select(edge_rows, fromTarget), RowWeight), top_k))

-----------------------------------------------------------------------------
(* retrieval_engine.py: the pipelines.  A call either returns a list or    *)
(* raises; the outcome records which.                                      *)

\* What a call hands back: the list it returns or the exception it raises,
\* beside the rows of graph_edges and entity_chunks that its queries selected.
Returned(results, edges_read, entity_chunks_read) ==
    [outcome |-> "returned", results |-> results, error |-> NONE,
     edges_read |-> edges_read, entity_chunks_read |-> entity_chunks_read]

Raised(error) ==
    [outcome |-> "raised", results |-> <<>>, error |-> error,
     edges_read |-> {}, entity_chunks_read |-> {}]

LongerThan2(e) == Len(e) > 2

\* " ".join(r.get("text", "") for r in initial)
RECURSIVE JoinTexts(_)
JoinTexts(rs) ==
    IF rs = <<>> THEN <<>>
    ELSE IF Len(rs) = 1 THEN Get(rs[1], "text", <<>>)
    ELSE Get(rs[1], "text", <<>>) \o <<" ">> \o JoinTexts(Tail(rs))

\* entities = list(dict.fromkeys(entities_from_query + entities_from_results))[:15]
GraphEntities(initial, query) ==
    LET Entities(entities_from_query, entities_from_results) ==
            Prefix(FromKeys(entities_from_query \o entities_from_results), 15)
    IN  Entities(Prefix(Select(extract_entities(query), LongerThan2), 10),
                 Prefix(Select(extract_entities(JoinTexts(initial)), LongerThan2), 15))

\* for e in entities[:8]: related.extend(...); related = list(dict.fromkeys(related))[:15]
GraphRelated(edge_rows, entities, doc_id) ==
    LET Names(t) == [j \in 1..Len(t) |-> t[j][1]]
        Related(first) ==
            Concat([i \in 1..Len(first) |->
                Names(get_related_entities(edge_rows, first[i], 4, doc_id))])
    IN  Prefix(FromKeys(Related(Prefix(entities, 8))), 15)

\* for ent in related[:5]: ... expanded.extend(chunks)
GraphExpanded(coll, ec_rows, related, doc_id, fault) ==
    LET Chunks(chunk_ids) ==
            IF chunk_ids # <<>> THEN get_by_ids(coll, chunk_ids, fault) ELSE <<>>
        Expanded(first) ==
            Concat([i \in 1..Len(first) |->
                Chunks(get_chunk_ids_for_entities(ec_rows, <<first[i]>>, 6, doc_id))])
    IN  Expanded(Prefix(related, 5))

\* The graph_edges rows that the get_related_entities calls select.
GraphEdgesRead(edge_rows, entities, doc_id) ==
    {r \in Range(edge_rows) :
        \E e \in Range(Prefix(entities, 8)) :
            SourceMatch(r, e, doc_id) \/ TargetMatch(r, e, doc_id)}

\* The entity_chunks rows that the get_chunk_ids_for_entities calls select.
GraphEntityChunksRead(ec_rows, related, doc_id) ==
    {r \in Range(ec_rows) :
        \E e \in Range(Prefix(related, 5)) : EntityChunkMatch(r, <<e>>, doc_id)}

\* RetrievalEngine._retrieve_graph(query, top_k, doc_id).  No statement of
\* it is inside a try: an exception of a get_related_entities call (made
\* once per entity of entities[:8]) or of a get_chunk_ids_for_entities call
\* (made once per entity of related[:5]) leaves it.
retrieve_graph(coll, edge_rows, ec_rows, query, top_k, doc_id, fault) ==
    LET Fused(initial, entities, related) ==
            IF fault = "get_chunk_ids_for_entities" /\ related # <<>> THEN Raised("StoreError")
            ELSE Returned(Prefix(deduplicate_results(
                              reciprocal_rank_fusion(
                                  <<initial,
                                    GraphExpanded(coll, ec_rows, related, doc_id, fault)>>)), top_k),
                          GraphEdgesRead(edge_rows, entities, doc_id),
                          GraphEntityChunksRead(ec_rows, related, doc_id))
        Expand(initial, entities) ==
            IF fault = "get_related_entities" /\ entities # <<>> THEN Raised("StoreError")
            ELSE Fused(initial, entities, GraphRelated(edge_rows, entities, doc_id))
        Graph(initial) ==
            IF initial = <<>> THEN Returned(<<>>, {}, {})
            ELSE Expand(initial, GraphEntities(initial, query))
    IN  Graph(search(coll, query, Max(10, top_k * 2), doc_id))

\* self.vector_db.search_raptor(query, top_k=fetch_k, level=level, doc_id=doc_id):
\* the keywords of the call
search_raptor_keywords == {"top_k", "level", "doc_id"}

NonEmpty(r) == r # <<>>

\* RetrievalEngine._retrieve_raptor(query, top_k, doc_id).  A keyword that
\* is no parameter of the callee raises TypeError at the first call, before
\* the body of search_raptor runs; an exception of the body leaves
\* _retrieve_raptor as well, which has no try either.
retrieve_raptor(coll, rcoll, query, top_k, doc_id, fault) ==
    LET Fused(from_levels) ==
            IF from_levels = <<>> THEN Returned(search(coll, query, top_k, doc_id), {}, {})
            ELSE Returned(Prefix(deduplicate_results(reciprocal_rank_fusion(from_levels)), top_k),
                          {}, {})
        Levels(fetch_k) ==
            Fused(Select([l \in 1..2 |-> search_raptor(rcoll, query, fetch_k, 2 - l)], NonEmpty))
    IN  IF ~(search_raptor_keywords \subseteq search_raptor_params) THEN Raised("TypeError")
        ELSE IF fault = "search_raptor" THEN Raised("StoreError")
        ELSE Levels(Max(8, top_k * 2))

\* RetrievalEngine._retrieve_hybrid(query, top_k, doc_id)
retrieve_hybrid(coll, edge_rows, ec_rows, query, top_k, doc_id, fault) ==
    LET Fused(vector_res, graph_res) ==
            IF graph_res.outcome = "raised" THEN graph_res
            ELSE Returned(Prefix(deduplicate_results(
                              reciprocal_rank_fusion(<<vector_res, graph_res.results>>)), top_k),
                          graph_res.edges_read, graph_res.entity_chunks_read)
        Hybrid(fetch_k) ==
            Fused(search(coll, query, fetch_k, doc_id),
                  retrieve_graph(coll, edge_rows, ec_rows, query, fetch_k, doc_id, fault))
    IN  Hybrid(Max(10, top_k * 2))

\* A retrieve that answers vector mode from the tree index.
retrieve_vector_from_tree(query, mode, top_k, doc_id, fault) ==
    LET Run(pipeline) ==
            IF pipeline = "graph"
            THEN retrieve_graph(collection, graph_edges, entity_chunks, query, top_k, doc_id, fault)
            ELSE IF pipeline = "hybrid"
            THEN retrieve_hybrid(collection, graph_edges, entity_chunks, query, top_k, doc_id, fault)
            ELSE retrieve_raptor(collection, raptor_collection, query, top_k, doc_id, fault)
    IN  Run(Pipeline(mode, query))

\* RetrievalEngine.retrieve(query, mode, top_k, doc_id) on the current stores,
\* with the collaborator call that raises, if any
retrieve(query, mode, top_k, doc_id, fault) ==
    LET Run(pipeline) ==
            IF pipeline = "graph"
            THEN retrieve_graph(collection, graph_edges, entity_chunks, query, top_k, doc_id, fault)
            ELSE IF pipeline = "raptor"
            THEN retrieve_raptor(collection, raptor_collection, query, top_k, doc_id, fault)
            ELSE IF pipeline = "hybrid"
            THEN retrieve_hybrid(collection, graph_edges, entity_chunks, query, top_k, doc_id, fault)
            ELSE Returned(search(collection, query, top_k, doc_id), {}, {})
    IN  Run(Pipeline(mode, query))

-----------------------------------------------------------------------------
(* document_processor.py: _process_parsed as a sequence of steps.  The     *)
(* chunk list that chunk_document returns is the input of a pass.  Every   *)
(* store call is one step; two passes interleave at the steps.  A store    *)
(* call may raise (the stores are a Chroma directory and a SQLite file),   *)
(* and the exception leaves _process_parsed, which catches nothing.        *)

Passes == 1..MaxPasses

T_paris_rome == <<"P", "a", "r", "i", "s", ",", " ", "R", "o", "m", "e">>

T_rain == <<"r", "a", "i", "n">>

\* The longest text a pass is given, as its blocks: the blocks alternate
\* between one with two entities and one with none.
MasterBlocks == [i \in 1..MaxChunks |-> IF i % 2 = 1 THEN T_paris_rome ELSE T_rain]

\* The subsequences of s
RECURSIVE SubSeqs(_)
SubSeqs(s) ==
    IF s = <<>> THEN {<<>>}
    ELSE LET rest == SubSeqs(Tail(s))
         IN  rest \cup {<<Head(s)>> \o t : t \in rest}

\* The texts a pass may be given, as the chunk texts chunk_document makes
\* of them: any selection of the blocks, none included.
Inputs == SubSeqs(MasterBlocks)

\* Chunks whose chunk_index counts from one.
MakeChunks_index_from_one(texts) ==
    [i \in 1..Len(texts) |->
        [text |-> texts[i], chunk_id |-> i, metadata |-> [chunk_index |-> i]]]

\* The chunks of chunk_document: text, chunk_id, metadata.chunk_index
MakeChunks(texts) ==
    [i \in 1..Len(texts) |->
        [text |-> texts[i], chunk_id |-> i - 1, metadata |-> [chunk_index |-> i - 1]]]

\* filename of the pass
Filename(p) == "file" \o ToString(p)

\* doc_id = str(uuid.uuid4()): a value no other pass has
DocId(p) == "doc" \o ToString(p)

DocIds == {DocId(p) : p \in Passes}

\* An orchestrator without the check of the chunk list.
EmptyExtraction_unchecked(chunks_arg) == FALSE

\* if not chunks:
EmptyExtraction(chunks_arg) == chunks_arg = <<>>

NoError == [type |-> NONE, filename |-> NONE]

\* raise ValueError(f"No text extracted from {filename}. ...")
NoTextExtracted(filename) == [type |-> "ValueError", filename |-> filename]

\* An exception of a store call; its message does not come from _process_parsed.
StoreError == [type |-> "StoreError", filename |-> NONE]

\* A call of _process_parsed: the statement it is at, its locals chunks,
\* doc_id, edges and entity_chunks, the exception that left it, and the
\* doc_id of the dict it returned.
IdlePass ==
    [pc |-> "idle", chunks |-> <<>>, doc_id |-> NONE, edges |-> <<>>, entity_chunks |-> <<>>,
     error |-> NoError, returned |-> NONE]

NoRetrieval ==
    [outcome |-> "none", mode |-> NONE, query |-> <<>>, top_k |-> 0, doc_id |-> NONE,
     pipeline |-> NONE, results |-> <<>>, error |-> NONE,
     edges_read |-> {}, entity_chunks_read |-> {}]

\* The statement a pass reaches after build_cooccurrence_edges.
AfterDocument(graph) ==
    IF graph.edges # <<>> THEN "add_graph_edges"
    ELSE IF graph.entity_chunks # <<>> THEN "add_entity_chunks"
    ELSE "return"

\* The statement a pass reaches after the add_graph_edges call.
AfterEdges(p) == IF passes[p].entity_chunks # <<>> THEN "add_entity_chunks" ELSE "return"

\* The pass at its next statement; at the return statement it has returned
\* the dict with its doc_id.
Advance(pass, pc) ==
    [pass EXCEPT !.pc = IF pc = "return" THEN "done" ELSE pc,
                 !.returned = IF pc = "return" THEN pass.doc_id ELSE NONE]

Ended(p) == passes[p].pc \in {"done", "failed"}

pure == <<arg, ret, called>>

\* _process_parsed up to the first store call: analyze, chunk, check, uuid
Begin(p, texts) ==
    /\ retrieval = NoRetrieval
    /\ passes[p].pc = "idle"
    /\ \A o \in 1..(p - 1) : passes[o].pc # "idle"
    /\ \E cs \in {MakeChunks(texts)} :
           passes' = [passes EXCEPT ![p] =
               IF EmptyExtraction(cs)
               THEN [IdlePass EXCEPT !.pc = "failed", !.chunks = cs,
                                     !.error = NoTextExtracted(Filename(p))]
               ELSE [IdlePass EXCEPT !.pc = "add_chunks", !.chunks = cs, !.doc_id = DocId(p)]]
    /\ UNCHANGED retrieval
    /\ UNCHANGED <<stores, deleted, pure>>

\* processor.vector_db.add_chunks(chunks, doc_id=doc_id)
AddChunks(p) ==
    /\ retrieval = NoRetrieval
    /\ passes[p].pc = "add_chunks"
    /\ collection' = add_chunks(collection, passes[p].chunks, passes[p].doc_id)
    /\ passes' = [passes EXCEPT ![p] =
           Advance(@, IF Len(passes[p].chunks) >= 2 THEN "add_raptor_nodes" ELSE "add_document")]
    /\ UNCHANGED retrieval
    /\ UNCHANGED <<raptor_collection, documents, chunks, graph_edges, entity_chunks, deleted, pure>>

\* raptor_nodes = build_raptor_tree_with_model(...); add_raptor_nodes(raptor_nodes)
AddRaptorNodes(p) ==
    /\ retrieval = NoRetrieval
    /\ passes[p].pc = "add_raptor_nodes"
    /\ raptor_collection' =
           add_raptor_nodes(raptor_collection,
               build_raptor_tree_with_model(passes[p].chunks, passes[p].doc_id, <<>>))
    /\ passes' = [passes EXCEPT ![p] = Advance(@, "add_document")]
    /\ UNCHANGED retrieval
    /\ UNCHANGED <<collection, documents, chunks, graph_edges, entity_chunks, deleted, pure>>

\* processor.sql_db.add_document(...);
\* edges, entity_chunks = build_cooccurrence_edges(chunks, doc_id=doc_id)
AddDocument(p) ==
    /\ retrieval = NoRetrieval
    /\ passes[p].pc = "add_document"
    /\ \E t \in {add_document(documents, chunks, Filename(p), passes[p].chunks, passes[p].doc_id)} :
           /\ documents' = t.documents
           /\ chunks' = t.chunks
    /\ \E graph \in {build_cooccurrence_edges(passes[p].chunks, passes[p].doc_id)} :
           passes' = [passes EXCEPT ![p] =
               Advance([@ EXCEPT !.edges = graph.edges, !.entity_chunks = graph.entity_chunks],
                       AfterDocument(graph))]
    /\ UNCHANGED retrieval
    /\ UNCHANGED <<collection, raptor_collection, graph_edges, entity_chunks, deleted, pure>>

\* if edges: processor.sql_db.add_graph_edges(doc_id, edges)
AddGraphEdges(p) ==
    /\ retrieval = NoRetrieval
    /\ passes[p].pc = "add_graph_edges"
    /\ graph_edges' = add_graph_edges(graph_edges, passes[p].doc_id, passes[p].edges)
    /\ passes' = [passes EXCEPT ![p] = Advance(@, AfterEdges(p))]
    /\ UNCHANGED retrieval
    /\ UNCHANGED <<collection, raptor_collection, documents, chunks, entity_chunks, deleted, pure>>

\* if entity_chunks: processor.sql_db.add_entity_chunks(doc_id, entity_chunks)
AddEntityChunks(p) ==
    /\ retrieval = NoRetrieval
    /\ passes[p].pc = "add_entity_chunks"
    /\ entity_chunks' = add_entity_chunks(entity_chunks, passes[p].doc_id, passes[p].entity_chunks)
    /\ passes' = [passes EXCEPT ![p] = Advance(@, "return")]
    /\ UNCHANGED retrieval
    /\ UNCHANGED <<collection, raptor_collection, documents, chunks, graph_edges, deleted, pure>>

\* The store call the pass is at raises; nothing of it is stored.
StoreRaises(p) ==
    /\ retrieval = NoRetrieval
    /\ passes[p].pc \in {"add_chunks", "add_raptor_nodes", "add_document",
                         "add_graph_edges", "add_entity_chunks"}
    /\ Cardinality({o \in Passes : passes[o].error = StoreError}) < MaxFaults
    /\ passes' = [passes EXCEPT ![p].pc = "failed", ![p].error = StoreError]
    /\ UNCHANGED retrieval
    /\ UNCHANGED <<stores, deleted, pure>>

\* SQLDB.delete_document(doc_id), with a doc_id that a pass has returned
DeleteDocument(p) ==
    /\ retrieval = NoRetrieval
    /\ passes[p].returned # NONE
    /\ "sql" \notin deleted[p]
    /\ Cardinality({o \in Passes \ {p} : deleted[o] # {}}) < MaxDeletes
    /\ \E t \in {delete_document(documents, chunks, graph_edges, entity_chunks, passes[p].doc_id)} :
           /\ documents' = t.documents
           /\ chunks' = t.chunks
           /\ graph_edges' = t.graph_edges
           /\ entity_chunks' = t.entity_chunks
    /\ deleted' = [deleted EXCEPT ![p] = @ \cup {"sql"}]
    /\ UNCHANGED retrieval
    /\ UNCHANGED <<collection, raptor_collection, passes, pure>>

\* VectorDB.delete_by_doc_id(doc_id), with a doc_id that a pass has returned
DeleteByDocId(p) ==
    /\ retrieval = NoRetrieval
    /\ passes[p].returned # NONE
    /\ "vector" \notin deleted[p]
    /\ Cardinality({o \in Passes \ {p} : deleted[o] # {}}) < MaxDeletes
    /\ \E t \in {delete_by_doc_id(collection, raptor_collection, passes[p].doc_id)} :
           /\ collection' = t.collection
           /\ raptor_collection' = t.raptor_collection
    /\ deleted' = [deleted EXCEPT ![p] = @ \cup {"vector"}]
    /\ UNCHANGED retrieval
    /\ UNCHANGED <<documents, chunks, graph_edges, entity_chunks, passes, pure>>

Q_paris_connect == <<"P", "a", "r", "i", "s", " ", "c", "o", "n", "n", "e", "c", "t">>

Q_summary == <<"s", "u", "m", "m", "a", "r", "y">>

\* The queries of the model: one that names an entity and is routed to
\* graph, one that names none and is routed to raptor.
Queries == {Q_paris_connect, Q_summary}

\* RetrievalEngine.retrieve(query, mode, top_k, doc_id): one call, start to
\* return, on the stores as they are
Retrieve(query, mode, top_k, doc_id) ==
    /\ retrieval = NoRetrieval
    /\ \E out \in {retrieve(query, mode, top_k, doc_id, NoFault)} :
           retrieval' =
               [outcome |-> out.outcome, mode |-> mode, query |-> query, top_k |-> top_k,
                doc_id |-> doc_id, pipeline |-> Pipeline(mode, query),
                results |-> out.results, error |-> out.error,
                edges_read |-> out.edges_read,
                entity_chunks_read |-> out.entity_chunks_read]
    /\ UNCHANGED <<stores, passes, deleted, pure>>

\* The caller takes the outcome of the call.  The call neither writes nor
\* waits, so the steps of the passes and the delete calls that follow it
\* are the ones that follow the state it was made in; the model takes them
\* from there.
TakeResult ==
    /\ retrieval # NoRetrieval
    /\ retrieval' = NoRetrieval
    /\ UNCHANGED <<stores, passes, deleted, pure>>

Init ==
    /\ collection = <<>>
    /\ raptor_collection = <<>>
    /\ documents = <<>>
    /\ chunks = <<>>
    /\ graph_edges = <<>>
    /\ entity_chunks = <<>>
    /\ passes = [p \in Passes |-> IdlePass]
    /\ deleted = [p \in Passes |-> {}]
    /\ retrieval = NoRetrieval
    /\ arg = <<>>
    /\ ret = <<>>
    /\ called = "none"

Next ==
    \/ \E p \in Passes, texts \in Inputs : Begin(p, texts)
    \/ \E p \in Passes : AddChunks(p)
    \/ \E p \in Passes : AddRaptorNodes(p)
    \/ \E p \in Passes : AddDocument(p)
    \/ \E p \in Passes : AddGraphEdges(p)
    \/ \E p \in Passes : AddEntityChunks(p)
    \/ \E p \in Passes : StoreRaises(p)
    \/ \E p \in Passes : DeleteDocument(p)
    \/ \E p \in Passes : DeleteByDocId(p)
    \/ \E query \in Queries, mode \in Modes \cup {NONE}, top_k \in 1..MaxTopK,
          doc_id \in DocIds \cup {NONE} : Retrieve(query, mode, top_k, doc_id)
    \/ TakeResult

Spec == Init /\ [][Next]_vars

-----------------------------------------------------------------------------
(* _reciprocal_rank_fusion on its own: the lists are drawn at the start,   *)
(* one step applies the function.                                          *)

\* n copies of c
Rep(c, n) == [i \in 1..n |-> c]

Item_a == [id |-> <<"a">>, text |-> <<"t">>]

Item_b == [id |-> <<"b">>, text |-> <<"t">>]

\* Two items without id whose texts agree on the first 100 characters and
\* differ at the next one.
Item_long1 == [text |-> Rep("x", 100) \o <<"1">>]

Item_long2 == [text |-> Rep("x", 100) \o <<"2">>]

RRFItems == {Item_a, Item_b, Item_long1, Item_long2}

EmptyStores ==
    /\ collection = <<>>
    /\ raptor_collection = <<>>
    /\ documents = <<>>
    /\ chunks = <<>>
    /\ graph_edges = <<>>
    /\ entity_chunks = <<>>
    /\ passes = [p \in Passes |-> IdlePass]
    /\ deleted = [p \in Passes |-> {}]
    /\ retrieval = NoRetrieval

InitRRF ==
    /\ EmptyStores
    /\ arg \in SeqsUpTo(SeqsUpTo(RRFItems, MaxListLen), MaxLists)
    /\ ret = <<>>
    /\ called = "none"

\* _reciprocal_rank_fusion(result_lists, k=60)
CallRRF ==
    /\ called = "none"
    /\ ret' = reciprocal_rank_fusion(arg)
    /\ called' = "reciprocal_rank_fusion"
    /\ UNCHANGED <<stores, passes, deleted, retrieval, arg>>

NextRRF == CallRRF

SpecRRF == InitRRF /\ [][NextRRF]_vars

-----------------------------------------------------------------------------
(* _deduplicate_results on its own, applied once and then to its output.   *)

\* Two items with one id and different texts.
Item_a2 == [id |-> <<"a">>, text |-> <<"u">>]

\* Two items without id whose texts agree on the first 80 characters.
Item_short1 == [text |-> Rep("y", 80) \o <<"1">>]

Item_short2 == [text |-> Rep("y", 80) \o <<"2">>]

\* An item whose id is the empty string and whose text is the id of Item_a.
Item_blank == [id |-> <<>>, text |-> <<"a">>]

DedupItems == {Item_a, Item_a2, Item_short1, Item_short2, Item_blank}

InitDedup ==
    /\ EmptyStores
    /\ arg \in SeqsUpTo(DedupItems, MaxResults)
    /\ ret = <<>>
    /\ called = "none"

\* _deduplicate_results(results)
CallDedup ==
    /\ called = "none"
    /\ ret' = <<deduplicate_results(arg)>>
    /\ called' = "once"
    /\ UNCHANGED <<stores, passes, deleted, retrieval, arg>>

\* _deduplicate_results of the list the first call returned
CallDedupAgain ==
    /\ called = "once"
    /\ ret' = Append(ret, deduplicate_results(ret[1]))
    /\ called' = "twice"
    /\ UNCHANGED <<stores, passes, deleted, retrieval, arg>>

NextDedup == CallDedup \/ CallDedupAgain

SpecDedup == InitDedup /\ [][NextDedup]_vars

-----------------------------------------------------------------------------
(* The choice of the pipeline in retrieve on its own.  A query is a        *)
(* concatenation of fragments: the routing words, some of them in capitals *)
(* or cut short, and text that holds none of them.                         *)

F_RELATED == <<"R", "E", "L", "A", "T", "E", "D">>

F_Summary == <<"S", "u", "m", "m", "a", "r", "y">>

F_relat == <<"r", "e", "l", "a", "t">>

F_main == <<"m", "a", "i", "n">>

F_points == <<" ", "p", "o", "i", "n", "t", "s">>

F_plain == <<"x", " ", "y">>

Fragments ==
    GraphWords \cup RaptorWords \cup {F_RELATED, F_Summary, F_relat, F_main, F_points, F_plain}

\* "What is the relationship between X and Y"
ScenarioC ==
    <<"W", "h", "a", "t", " ", "i", "s", " ", "t", "h", "e", " ",
      "r", "e", "l", "a", "t", "i", "o", "n", "s", "h", "i", "p", " ",
      "b", "e", "t", "w", "e", "e", "n", " ", "X", " ", "a", "n", "d", " ", "Y">>

RouteQueries == {Concat(fs) : fs \in SeqsUpTo(Fragments, MaxFragments)} \cup {ScenarioC}

InitRoute ==
    /\ EmptyStores
    /\ arg \in [mode : Modes \cup {NONE}, query : RouteQueries]
    /\ ret = NONE
    /\ called = "none"

\* retrieve(query, mode): the branch of its if-chain that runs
CallRetrieve ==
    /\ called = "none"
    /\ ret' = Pipeline(arg.mode, arg.query)
    /\ called' = "retrieve"
    /\ UNCHANGED <<stores, passes, deleted, retrieval, arg>>

NextRoute == CallRetrieve

SpecRoute == InitRoute /\ [][NextRoute]_vars

-----------------------------------------------------------------------------
(* retrieve with a collaborator that fails.  The stores hold what the      *)
(* passes wrote, one pass after the other; the call that raises is the     *)
(* input.                                                                  *)

NothingStored ==
    [collection |-> <<>>, raptor_collection |-> <<>>, documents |-> <<>>,
     chunks |-> <<>>, graph_edges |-> <<>>, entity_chunks |-> <<>>]

\* The stores after pass p has run alone, start to return, on the stores s.
RunOn(s, p) ==
    LET d == DocId(p)
        graph == build_cooccurrence_edges(passes[p].chunks, d)
        t == add_document(s.documents, s.chunks, Filename(p), passes[p].chunks, d)
    IN  [collection |-> add_chunks(s.collection, passes[p].chunks, d),
         raptor_collection |->
             IF Len(passes[p].chunks) >= 2
             THEN add_raptor_nodes(s.raptor_collection,
                      build_raptor_tree_with_model(passes[p].chunks, d, <<>>))
             ELSE s.raptor_collection,
         documents |-> t.documents,
         chunks |-> t.chunks,
         graph_edges |-> IF graph.edges # <<>> THEN add_graph_edges(s.graph_edges, d, graph.edges)
                         ELSE s.graph_edges,
         entity_chunks |->
             IF graph.entity_chunks # <<>>
             THEN add_entity_chunks(s.entity_chunks, d, graph.entity_chunks)
             ELSE s.entity_chunks]

Written(p) == RunOn(NothingStored, p)

\* The stores after the passes 1..n have run one after the other.
RECURSIVE Sequential(_)
Sequential(n) == IF n = 0 THEN NothingStored ELSE RunOn(Sequential(n - 1), n)

\* The pass p after it has ingested texts and returned.
DonePass(p, texts) ==
    LET Done(cs, graph) ==
            [pc |-> "done", chunks |-> cs, doc_id |-> DocId(p), edges |-> graph.edges,
             entity_chunks |-> graph.entity_chunks, error |-> NoError, returned |-> DocId(p)]
        Ingested(cs) == Done(cs, build_cooccurrence_edges(cs, DocId(p)))
    IN  Ingested(MakeChunks(texts))

InitFault ==
    /\ passes \in {[p \in Passes |-> DonePass(p, texts[p])] : texts \in [Passes -> Inputs \ {<<>>}]}
    /\ \E s \in {Sequential(MaxPasses)} :
           /\ collection = s.collection
           /\ raptor_collection = s.raptor_collection
           /\ documents = s.documents
           /\ chunks = s.chunks
           /\ graph_edges = s.graph_edges
           /\ entity_chunks = s.entity_chunks
    /\ deleted = [p \in Passes |-> {}]
    /\ retrieval = NoRetrieval
    /\ arg \in Faults
    /\ ret = <<>>
    /\ called = "none"

\* RetrievalEngine.retrieve(query, mode, top_k, doc_id) while the call arg raises
RetrieveFailing(query, mode, top_k, doc_id) ==
    /\ called = "none"
    /\ \E out \in {retrieve(query, mode, top_k, doc_id, arg)} :
           retrieval' =
               [outcome |-> out.outcome, mode |-> mode, query |-> query, top_k |-> top_k,
                doc_id |-> doc_id, pipeline |-> Pipeline(mode, query),
                results |-> out.results, error |-> out.error,
                edges_read |-> out.edges_read,
                entity_chunks_read |-> out.entity_chunks_read]
    /\ called' = "retrieve"
    /\ UNCHANGED <<stores, passes, deleted, arg, ret>>

NextFault ==
    \E query \in Queries, mode \in Modes \cup {NONE}, top_k \in 1..MaxTopK,
       doc_id \in DocIds \cup {NONE} : RetrieveFailing(query, mode, top_k, doc_id)

SpecFault == InitFault /\ [][NextFault]_vars

-----------------------------------------------------------------------------
(* build_cooccurrence_edges as a pure function of the chunk texts and the  *)
(* doc_id, followed by the rows that add_graph_edges makes of its edges.   *)

\* "Paris is nice", "Paris has the Eiffel Tower", "Berlin is far from Paris"
ScenarioA ==
    <<<<"P", "a", "r", "i", "s", " ", "i", "s", " ", "n", "i", "c", "e">>,
      <<"P", "a", "r", "i", "s", " ", "h", "a", "s", " ", "t", "h", "e", " ", "E", "i", "f", "f", "e", "l", " ", "T", "o", "w", "e", "r">>,
      <<"B", "e", "r", "l", "i", "n", " ", "i", "s", " ", "f", "a", "r", " ", "f", "r", "o", "m", " ", "P", "a", "r", "i", "s">>>>

\* The chunk texts: those of the scenario, one that names an entity twice
\* ("Paris, Rome, Paris"), the same pair in both orders ("Rome, Paris",
\* "Paris, Rome"), one without entities and the empty text.
GraphTexts ==
    Range(ScenarioA)
        \cup {<<"P", "a", "r", "i", "s", ",", " ", "R", "o", "m", "e", ",", " ", "P", "a", "r", "i", "s">>,
              <<"R", "o", "m", "e", ",", " ", "P", "a", "r", "i", "s">>,
              T_paris_rome, T_rain, <<>>}

InitGraph ==
    /\ EmptyStores
    /\ arg \in [texts : SeqsUpTo(GraphTexts, MaxGraphChunks), doc_id : {DocId(1), NONE}]
    /\ ret = <<>>
    /\ called = "none"

\* edges, entity_chunks = build_cooccurrence_edges(chunks, doc_id); the
\* rows are those of sql_db.add_graph_edges(doc_id, edges) in an empty table
CallBuildEdges ==
    /\ called = "none"
    /\ \E graph \in {build_cooccurrence_edges(MakeChunks(arg.texts), arg.doc_id)} :
           ret' = [edges |-> graph.edges, entity_chunks |-> graph.entity_chunks,
                   rows |-> add_graph_edges(<<>>, arg.doc_id, graph.edges)]
    /\ called' = "build_cooccurrence_edges"
    /\ UNCHANGED <<stores, passes, deleted, retrieval, arg>>

SpecGraph == InitGraph /\ [][CallBuildEdges]_vars

-----------------------------------------------------------------------------
(* build_raptor_tree as a pure function of the chunks, the embeddings, the *)
(* cluster count and the labels that KMeans gives the embeddings.  KMeans  *)
(* is external: any assignment of the embeddings to the clusters           *)
(* 0..min(n_clusters, n) - 1 is a result of it.  The inputs are those on   *)
(* which the builder returns: n_clusters is positive, there are at least   *)
(* n_clusters embeddings when KMeans runs, and no more embeddings than     *)
(* chunks.                                                                 *)

\* The texts of the chunks, one per position
TreeTexts == [i \in 1..MaxTreeChunks |-> <<"c", ToString(i)>>]

\* The one-dimensional embeddings
EmbeddingValues == {1, 2, 6}

\* KMeans(n_clusters=min(n_clusters, n)).fit_predict(emb) accepts emb
KMeansAccepts(n, n_clusters, embeddings) ==
    n > n_clusters /\ embeddings # <<>> => Len(embeddings) >= n_clusters

InitRaptor ==
    /\ EmptyStores
    /\ \E n \in 0..MaxTreeChunks, k \in 1..MaxClusters :
           \E e \in SeqsUpTo(EmbeddingValues, n) :
               /\ KMeansAccepts(n, k, e)
               /\ \E l \in [1..Len(e) -> 0..(Max(1, Min(k, n)) - 1)] :
                      arg = [chunks |-> MakeChunks(SubSeq(TreeTexts, 1, n)), embeddings |-> e,
                             n_clusters |-> k, labels |-> l]
    /\ ret = <<>>
    /\ called = "none"

\* build_raptor_tree(chunks, embeddings, doc_id, n_clusters)
CallBuildTree ==
    /\ called = "none"
    /\ ret' = build_raptor_tree(arg.chunks, arg.embeddings, DocId(1), arg.n_clusters, arg.labels)
    /\ called' = "build_raptor_tree"
    /\ UNCHANGED <<stores, passes, deleted, retrieval, arg>>

SpecRaptor == InitRaptor /\ [][CallBuildTree]_vars

-----------------------------------------------------------------------------
(* chunker.py: chunk_document, with the loops of _chunk_fixed and of       *)
(* _chunk_from_structure as sequences of steps, one per iteration.  arg is *)
(* the call (the parsed document, the strategy, chunk_size and             *)
(* chunk_overlap), ret the locals of the running function.  The locals     *)
(* current_blocks and made are history: the positions in the structure of  *)
(* the blocks in current_chunk, and of the parts of each _make_chunk call. *)

\* The index i of s[i:] or s[:i] as Python reads it in a str of length n
SliceIndex(n, i) == IF i < 0 THEN Max(n + i, 0) ELSE Min(i, n)

\* s[a:b]
Slice(s, a, b) ==
    IF SliceIndex(Len(s), a) < SliceIndex(Len(s), b)
    THEN SubSeq(s, SliceIndex(Len(s), a) + 1, SliceIndex(Len(s), b))
    ELSE <<>>

RECURSIVE LStrip(_)
LStrip(s) == IF s # <<>> /\ IsSpace(Head(s)) THEN LStrip(Tail(s)) ELSE s

RECURSIVE RStrip(_)
RStrip(s) == IF s # <<>> /\ IsSpace(s[Len(s)]) THEN RStrip(SubSeq(s, 1, Len(s) - 1)) ELSE s

\* s.strip()
Strip(s) == LStrip(RStrip(s))

\* The length of the run of line breaks that ends just before position i
BreaksBefore(text, i) ==
    Cardinality({j \in 1..(i - 1) : \A m \in j..(i - 1) : text[m] = "\n"})

\* A separator "\n\n" of split begins at i: split takes the separators from
\* the left, so in a run of line breaks the first, the third, ... begin one
SeparatorAt(text, i) ==
    /\ i < Len(text)
    /\ text[i] = "\n"
    /\ text[i + 1] = "\n"
    /\ BreaksBefore(text, i) % 2 = 0

\* text.split("\n\n"): the pieces before, between and after the separators
SplitBlank(text) ==
    LET Nth(seps, k) == CHOOSE i \in seps : Cardinality({j \in seps : j < i}) = k - 1
        Pieces(seps) ==
            [k \in 1..(Cardinality(seps) + 1) |->
                SubSeq(text,
                       IF k = 1 THEN 1 ELSE Nth(seps, k - 1) + 2,
                       IF k = Cardinality(seps) + 1 THEN Len(text) ELSE Nth(seps, k) - 1)]
    IN  Pieces({i \in 1..Len(text) : SeparatorAt(text, i)})

\* [b.strip() for b in text.split("\n\n") if b.strip()]
StrippedBlocks(text) ==
    LET Stripped(pieces) == Select([n \in 1..Len(pieces) |-> Strip(pieces[n])], NonEmpty)
    IN  Stripped(SplitBlank(text))

\* "\n\n".join(parts)
RECURSIVE JoinBlank(_)
JoinBlank(parts) ==
    IF parts = <<>> THEN <<>>
    ELSE IF Len(parts) = 1 THEN parts[1]
    ELSE parts[1] \o <<"\n", "\n">> \o JoinBlank(Tail(parts))

\* {"text": ..., "chunk_id": chunk_idx,
\*  "metadata": {**metadata_base, "strategy": ..., "chunk_index": chunk_idx}}
ChunkDict(chunk_text, chunk_idx, metadata_base, strategy) ==
    [text |-> chunk_text,
     chunk_id |-> chunk_idx,
     metadata |->
         [k \in DOMAIN metadata_base \cup {"strategy", "chunk_index"} |->
             IF k = "strategy" THEN strategy
             ELSE IF k = "chunk_index" THEN chunk_idx
             ELSE metadata_base[k]]]

\* chunk_text = text[start:end] with end = start + chunk_size
Window(text, start, chunk_size) == Slice(text, start, start + chunk_size)

\* A next start that ignores the overlap.
NextStart_at_end(start, chunk_size, overlap) == start + chunk_size

\* A next start that is always past the start.
NextStart_corrected(start, chunk_size, overlap) ==
    Max(start + 1, (start + chunk_size) - overlap)

\* start = end - overlap
NextStart(start, chunk_size, overlap) == (start + chunk_size) - overlap

\* A skip that uses up a chunk index.
FixedSkipped_uses_index(st, chunk_size, overlap) ==
    [st EXCEPT !.start = NextStart(st.start, chunk_size, overlap),
               !.chunk_idx = st.chunk_idx + 1]

\* if not chunk_text.strip(): start = end - overlap; continue
FixedSkipped(st, chunk_size, overlap) ==
    [st EXCEPT !.start = NextStart(st.start, chunk_size, overlap)]

\* chunks.append({...}); chunk_idx += 1; start = end - overlap
FixedAppended(st, chunk_text, chunk_size, overlap, metadata_base) ==
    [st EXCEPT !.chunks = Append(st.chunks,
                              ChunkDict(chunk_text, st.chunk_idx, metadata_base, "fixed")),
               !.chunk_idx = st.chunk_idx + 1,
               !.start = NextStart(st.start, chunk_size, overlap)]

\* _make_chunk(parts, chunk_idx, metadata_base)
make_chunk(parts, chunk_idx, metadata_base) ==
    ChunkDict(JoinBlank(parts), chunk_idx, metadata_base, "dynamic")

\* A test that never finds the buffer full.
Overflows_never(st, block_text, target_size) == FALSE

\* current_chunk and current_size + block_len > target_size
Overflows(st, block_text, target_size) ==
    st.current_chunk # <<>> /\ st.current_size + (Len(block_text) + 2) > target_size

\* A flush at a heading that closes the chunk with the heading.
HeadingFlushed_closes_with_heading(st, block_text, metadata_base) ==
    [st EXCEPT !.chunks = Append(st.chunks,
                              make_chunk(Append(st.current_chunk, block_text), st.chunk_idx,
                                         metadata_base)),
               !.made = Append(st.made, Append(st.current_blocks, st.i)),
               !.chunk_idx = st.chunk_idx + 1,
               !.current_chunk = <<>>,
               !.current_blocks = <<>>,
               !.current_size = 0,
               !.i = st.i + 1]

\* The heading branch: chunks.append(_make_chunk(current_chunk, ...));
\* chunk_idx += 1; current_chunk = [block_text]; current_size = block_len
HeadingFlushed(st, block_text, metadata_base) ==
    [st EXCEPT !.chunks = Append(st.chunks,
                              make_chunk(st.current_chunk, st.chunk_idx, metadata_base)),
               !.made = Append(st.made, st.current_blocks),
               !.chunk_idx = st.chunk_idx + 1,
               !.current_chunk = <<block_text>>,
               !.current_blocks = <<st.i>>,
               !.current_size = Len(block_text) + 2,
               !.i = st.i + 1]

\* A flush that drops the block that caused it.
OverflowFlushed_drops_block(st, block_text, metadata_base) ==
    [st EXCEPT !.chunks = Append(st.chunks,
                              make_chunk(st.current_chunk, st.chunk_idx, metadata_base)),
               !.made = Append(st.made, st.current_blocks),
               !.chunk_idx = st.chunk_idx + 1,
               !.current_chunk = <<>>,
               !.current_blocks = <<>>,
               !.current_size = 0,
               !.i = st.i + 1]

\* The elif branch: the same statements for a block that is no heading
OverflowFlushed(st, block_text, metadata_base) ==
    [st EXCEPT !.chunks = Append(st.chunks,
                              make_chunk(st.current_chunk, st.chunk_idx, metadata_base)),
               !.made = Append(st.made, st.current_blocks),
               !.chunk_idx = st.chunk_idx + 1,
               !.current_chunk = <<block_text>>,
               !.current_blocks = <<st.i>>,
               !.current_size = Len(block_text) + 2,
               !.i = st.i + 1]

\* current_chunk.append(block_text); current_size += block_len
BlockAppended(st, block_text) ==
    [st EXCEPT !.current_chunk = Append(st.current_chunk, block_text),
               !.current_blocks = Append(st.current_blocks, st.i),
               !.current_size = st.current_size + (Len(block_text) + 2),
               !.i = st.i + 1]

\* if current_chunk: chunks.append(_make_chunk(current_chunk, ...))
LastFlushed(st, metadata_base) ==
    IF st.current_chunk = <<>> THEN st
    ELSE [st EXCEPT !.chunks = Append(st.chunks,
                                   make_chunk(st.current_chunk, st.chunk_idx, metadata_base)),
                    !.made = Append(st.made, st.current_blocks)]

\* The characters of the texts: a letter, a blank, a line break
ChunkChars == {"a", " ", "\n"}

\* The structure blocks: headings and paragraphs with no text, a blank, and
\* texts of one, of two and of six letters
Blocks ==
    [type : {"heading", "paragraph"}, level : {0},
     text : {<<>>, <<" ">>, <<"a">>, <<"b", "b">>, <<"c", "c", "c", "c", "c", "c">>}]

\* The target sizes of the dynamic strategy: one short block, two of them
TargetSizes == {3, 7}

\* parsed["metadata"], without and with a chunk_index of its own
MetadataBases == {[source_type |-> "local"], [source_type |-> "local", chunk_index |-> 9]}

\* The calls chunk_document(parsed, strategy, chunk_size, chunk_overlap):
\* fixed on a text, dynamic on a structure, dynamic on a text without one.
ChunkCalls ==
    [strategy : {"fixed"}, text : SeqsUpTo(ChunkChars, MaxChunkText), structure : {<<>>},
     metadata : MetadataBases, chunk_size : 1..MaxChunkSize, chunk_overlap : 0..MaxChunkSize]
    \cup [strategy : {"dynamic"}, text : {<<>>}, structure : SeqsUpTo(Blocks, MaxBlocks),
          metadata : MetadataBases, chunk_size : TargetSizes, chunk_overlap : {0}]
    \cup [strategy : {"dynamic"}, text : SeqsUpTo(ChunkChars, MaxChunkText), structure : {<<>>},
          metadata : MetadataBases, chunk_size : TargetSizes, chunk_overlap : {0}]

InitChunk ==
    /\ EmptyStores
    /\ arg \in ChunkCalls
    /\ ret = <<>>
    /\ called = "none"

\* if strategy == "fixed": return _chunk_fixed(parsed, chunk_size, chunk_overlap)
CallChunkFixed ==
    /\ called = "none"
    /\ arg.strategy = "fixed"
    /\ ret' = [start |-> 0, chunk_idx |-> 0, chunks |-> <<>>]
    /\ called' = "_chunk_fixed"
    /\ UNCHANGED <<stores, passes, deleted, retrieval, arg>>

\* One iteration of `while start < len(text)` on a window of whitespace.
\* With chunk_overlap >= chunk_size the loop has no last iteration; the
\* model follows it while start >= -MaxChunkText.
FixedSkip ==
    /\ called = "_chunk_fixed"
    /\ ret.start < Len(arg.text)
    /\ ret.start >= -MaxChunkText
    /\ Blank(Window(arg.text, ret.start, arg.chunk_size))
    /\ ret' = FixedSkipped(ret, arg.chunk_size, arg.chunk_overlap)
    /\ UNCHANGED <<stores, passes, deleted, retrieval, arg, called>>

\* One iteration on a window with text; followed while the list has at
\* most MaxChunkText chunks.
FixedAppend ==
    /\ called = "_chunk_fixed"
    /\ ret.start < Len(arg.text)
    /\ ret.start >= -MaxChunkText
    /\ Len(ret.chunks) <= MaxChunkText
    /\ \E chunk_text \in {Window(arg.text, ret.start, arg.chunk_size)} :
           /\ ~Blank(chunk_text)
           /\ ret' = FixedAppended(ret, chunk_text, arg.chunk_size, arg.chunk_overlap,
                                   arg.metadata)
    /\ UNCHANGED <<stores, passes, deleted, retrieval, arg, called>>

\* return chunks
FixedReturn ==
    /\ called = "_chunk_fixed"
    /\ ret.start >= Len(arg.text)
    /\ called' = "returned"
    /\ UNCHANGED <<stores, passes, deleted, retrieval, arg, ret>>

\* return _chunk_dynamic(parsed, chunk_size): the structure, or the
\* paragraphs of the text when there is none
CallChunkDynamic ==
    /\ called = "none"
    /\ arg.strategy # "fixed"
    /\ \E bs \in {IF arg.structure # <<>> THEN arg.structure
                  ELSE LET Paragraphs(ps) ==
                               [n \in 1..Len(ps) |->
                                   [type |-> "paragraph", level |-> 0, text |-> ps[n]]]
                       IN  Paragraphs(StrippedBlocks(arg.text))} :
           ret' = [blocks |-> bs, i |-> 1, current_chunk |-> <<>>, current_blocks |-> <<>>,
                   current_size |-> 0, chunk_idx |-> 0, chunks |-> <<>>, made |-> <<>>]
    /\ called' = "_chunk_from_structure"
    /\ UNCHANGED <<stores, passes, deleted, retrieval, arg>>

\* if not block_text: continue
DynamicSkip ==
    /\ called = "_chunk_from_structure"
    /\ ret.i <= Len(ret.blocks)
    /\ ~Truthy(Get(ret.blocks[ret.i], "text", <<>>))
    /\ ret' = [ret EXCEPT !.i = ret.i + 1]
    /\ UNCHANGED <<stores, passes, deleted, retrieval, arg, called>>

\* if is_heading and current_chunk and current_size + block_len > target_size
DynamicHeadingFlush ==
    /\ called = "_chunk_from_structure"
    /\ ret.i <= Len(ret.blocks)
    /\ \E block \in {ret.blocks[ret.i]} :
           /\ Truthy(Get(block, "text", <<>>))
           /\ Get(block, "type", NONE) = "heading"
           /\ Overflows(ret, block.text, arg.chunk_size)
           /\ ret' = HeadingFlushed(ret, block.text, arg.metadata)
    /\ UNCHANGED <<stores, passes, deleted, retrieval, arg, called>>

\* elif current_size + block_len > target_size and current_chunk
DynamicOverflowFlush ==
    /\ called = "_chunk_from_structure"
    /\ ret.i <= Len(ret.blocks)
    /\ \E block \in {ret.blocks[ret.i]} :
           /\ Truthy(Get(block, "text", <<>>))
           /\ Get(block, "type", NONE) # "heading"
           /\ Overflows(ret, block.text, arg.chunk_size)
           /\ ret' = OverflowFlushed(ret, block.text, arg.metadata)
    /\ UNCHANGED <<stores, passes, deleted, retrieval, arg, called>>

\* else: the block joins the buffer
DynamicAppend ==
    /\ called = "_chunk_from_structure"
    /\ ret.i <= Len(ret.blocks)
    /\ \E block \in {ret.blocks[ret.i]} :
           /\ Truthy(Get(block, "text", <<>>))
           /\ ~Overflows(ret, block.text, arg.chunk_size)
           /\ ret' = BlockAppended(ret, block.text)
    /\ UNCHANGED <<stores, passes, deleted, retrieval, arg, called>>

\* After the loop: the last flush and return chunks
DynamicReturn ==
    /\ called = "_chunk_from_structure"
    /\ ret.i > Len(ret.blocks)
    /\ ret' = LastFlushed(ret, arg.metadata)
    /\ called' = "returned"
    /\ UNCHANGED <<stores, passes, deleted, retrieval, arg>>

NextChunk ==
    \/ CallChunkFixed
    \/ FixedSkip
    \/ FixedAppend
    \/ FixedReturn
    \/ CallChunkDynamic
    \/ DynamicSkip
    \/ DynamicHeadingFlush
    \/ DynamicOverflowFlush
    \/ DynamicAppend
    \/ DynamicReturn

SpecChunk == InitChunk /\ [][NextChunk]_vars

\* The interpreter runs a call to its end: no step that can be taken is
\* put off for ever.
SpecChunkFair == SpecChunk /\ WF_vars(NextChunk)

-----------------------------------------------------------------------------
(* analyzer.py: analyze_document and _looks_like_heading.                  *)

\* if heading_count >= 2
MIN_HEADINGS == 2

\* if doc_length > 5000
LONG_DOCUMENT == 5000

\* if len(line) > 80
HEADING_MAX_LINE == 80

\* len(words) <= 6
HEADING_MAX_WORDS == 6

\* len(stripped) < 50
HEADING_MAX_UPPER == 50

IsDigit(c) == c \in {"0", "1", "2", "3", "4", "5", "6", "7", "8", "9"}

\* len(stripped.split()): the runs of characters that are no whitespace
WordCount(s) ==
    Cardinality({i \in 1..Len(s) : ~IsSpace(s[i]) /\ (i = 1 \/ IsSpace(s[i - 1]))})

\* stripped.isupper(): a cased character, and none in lower case
IsUpperStr(s) ==
    /\ \E i \in 1..Len(s) : IsUpper(s[i])
    /\ \A i \in 1..Len(s) : ~IsLower(s[i])

looks_like_heading(line) ==
    LET Stripped(stripped) ==
            IF stripped = <<>> THEN FALSE
            ELSE IF WordCount(stripped) <= HEADING_MAX_WORDS /\ IsDigit(stripped[1]) THEN TRUE
            ELSE IF IsUpperStr(stripped) /\ Len(stripped) < HEADING_MAX_UPPER THEN TRUE
            ELSE FALSE
    IN  IF Len(line) > HEADING_MAX_LINE THEN FALSE ELSE Stripped(Strip(line))

\* The sum of the squares
RECURSIVE SumSquares(_)
SumSquares(s) == IF s = <<>> THEN 0 ELSE Head(s) * Head(s) + SumSquares(Tail(s))

\* The sign of variance - (avg_para_len * 0.5) ** 2 as real numbers, times
\* 4 * para_count ** 2: 4 * n * sum(x ** 2) - 5 * sum(x) ** 2
Excess(para_lengths) ==
    4 * Len(para_lengths) * SumSquares(para_lengths)
        - 5 * SumSeq(para_lengths) * SumSeq(para_lengths)

\* The lists of lengths, in ascending order, for which std_dev and
\* avg_para_len * 0.5 are equal as real numbers and variance ** 0.5 is the
\* double above: for 1, 5, 5, 8, 9 the doubles are 2.8000000000000003 and
\* 2.8.  (For 1, 7, 7, 9, mean 6 and deviation 3, they are equal.)
RoundedAbove == {<<1, 5, 5, 8, 9>>}

\* std_dev > avg_para_len * 0.5, computed in doubles: the order of the real
\* numbers, except where they are equal and the root is rounded above
StdDevExceeds(para_lengths) ==
    LET Ascending(a, b) == a < b
        Sign(excess) ==
            IF excess = 0 THEN SortSeq(para_lengths, Ascending) \in RoundedAbove
            ELSE excess > 0
    IN  Sign(Excess(para_lengths))

\* heading_count and para_lengths, from the structure or, without one,
\* from the blocks of the text
HeadingCount(parsed) ==
    LET IsHeading(b) == Get(b, "type", NONE) = "heading"
    IN  IF Truthy(parsed.structure) THEN Len(Select(parsed.structure, IsHeading))
        ELSE Len(Select(StrippedBlocks(parsed.text), looks_like_heading))

ParaLengths(parsed) ==
    LET IsParagraph(b) == Get(b, "type", NONE) = "paragraph"
        Lengths(texts) == [n \in 1..Len(texts) |-> Len(texts[n])]
        TextLengths(bs) == [n \in 1..Len(bs) |-> Len(Get(bs[n], "text", <<>>))]
    IN  IF Truthy(parsed.structure) THEN TextLengths(Select(parsed.structure, IsParagraph))
        ELSE Lengths(StrippedBlocks(parsed.text))

analyze_document(parsed) ==
    LET Decide(heading_count, para_lengths, doc_length) ==
            IF heading_count >= MIN_HEADINGS THEN "dynamic"
            ELSE IF doc_length > LONG_DOCUMENT THEN "dynamic"
            ELSE IF Len(para_lengths) > 0 /\ StdDevExceeds(para_lengths) THEN "dynamic"
            ELSE "fixed"
    IN  Decide(HeadingCount(parsed), ParaLengths(parsed), Len(parsed.text))

\* The lengths of the paragraphs of a structure
ParagraphLengths == {1, 5, 7, 8, 9}

\* The blocks of a structure: a heading, and a paragraph of each length
AnalyzeBlocks ==
    {[type |-> "heading", level |-> 1, text |-> <<"h">>]}
    \cup {[type |-> "paragraph", level |-> 0, text |-> Rep("x", n)] : n \in ParagraphLengths}

\* Two lines with a blank line between them
TwoLines(line) == line \o <<"\n", "\n">> \o line

\* n words, the first beginning with a digit
DigitLine(n) == <<"1">> \o Concat([w \in 1..(n - 1) |-> <<" ", "a">>])

\* Texts without structure: the short ones over a small alphabet, and
\* pairs of lines on either side of each limit of _looks_like_heading, and
\* two paragraphs of uneven lengths
AnalyzeTexts ==
    SeqsUpTo({"a", "A", "1", "\n"}, MaxAnalyzeText)
    \cup {TwoLines(DigitLine(n)) : n \in {HEADING_MAX_WORDS, HEADING_MAX_WORDS + 1}}
    \cup {TwoLines(Rep("A", n)) : n \in {HEADING_MAX_UPPER - 1, HEADING_MAX_UPPER}}
    \cup {TwoLines(<<"1">> \o Rep("x", n)) : n \in {HEADING_MAX_LINE - 1, HEADING_MAX_LINE}}
    \cup {<<"a", "\n", "\n", "a", "a", "a", "a">>}

\* The calls analyze_document(parsed): a structure with a short text, one
\* block with a text at and past the length limit, a text without structure
AnalyzeCalls ==
    [text : {<<>>}, structure : SeqsUpTo(AnalyzeBlocks, MaxParagraphs) \ {<<>>}]
    \cup [text : {Rep("x", LONG_DOCUMENT), Rep("x", LONG_DOCUMENT + 1)},
          structure : SeqsUpTo(AnalyzeBlocks, 1) \ {<<>>}]
    \cup [text : AnalyzeTexts, structure : {<<>>}]

InitAnalyze ==
    /\ EmptyStores
    /\ arg \in AnalyzeCalls
    /\ ret = <<>>
    /\ called = "none"

CallAnalyze ==
    /\ called = "none"
    /\ ret' = analyze_document(arg)
    /\ called' = "analyze_document"
    /\ UNCHANGED <<stores, passes, deleted, retrieval, arg>>

SpecAnalyze == InitAnalyze /\ [][CallAnalyze]_vars

-----------------------------------------------------------------------------
(* sql_db.py: get_related_entities on the graph_edges rows of ingested     *)
(* documents.                                                              *)

\* The chunk texts of the documents: "Paris has the Eiffel Tower", "Berlin
\* is far from Paris", "Paris, Rome"
RelatedTexts == {ScenarioA[2], ScenarioA[3], T_paris_rome}

\* The entities of these texts
RelatedEntities == UNION {Range(extract_entities(text)) : text \in RelatedTexts}

\* The graph_edges rows after _process_parsed of a first and of a second
\* document: add_graph_edges(doc_id, edges) with the edges of
\* build_cooccurrence_edges; a document without chunks is not stored.
EdgeRowsOf(texts1, texts2) ==
    LET Second(rows) ==
            IF texts2 = <<>> THEN rows
            ELSE add_graph_edges(rows, DocId(2),
                     build_cooccurrence_edges(MakeChunks(texts2), DocId(2)).edges)
    IN  Second(IF texts1 = <<>> THEN <<>>
               ELSE add_graph_edges(<<>>, DocId(1),
                        build_cooccurrence_edges(MakeChunks(texts1), DocId(1)).edges))

InitRelated ==
    /\ EmptyStores
    /\ arg \in [texts1 : SeqsUpTo(RelatedTexts, MaxRelatedChunks),
                texts2 : SeqsUpTo(RelatedTexts, 1),
                entity : RelatedEntities,
                top_k : 1..MaxTopK,
                doc_id : {NONE, DocId(1), DocId(2)}]
    /\ ret = <<>>
    /\ called = "none"

CallGetRelated ==
    /\ called = "none"
    /\ \E rows \in {EdgeRowsOf(arg.texts1, arg.texts2)} :
           ret' = [rows |-> rows,
                   related |-> get_related_entities(rows, arg.entity, arg.top_k, arg.doc_id)]
    /\ called' = "get_related_entities"
    /\ UNCHANGED <<stores, passes, deleted, retrieval, arg>>

SpecRelated == InitRelated /\ [][CallGetRelated]_vars

-----------------------------------------------------------------------------
(* Properties.  The records of a document in the six stores, and what a    *)
(* pass writes when every one of its store calls returns.                  *)

OfDoc(rows, DocOf(_), doc_id) ==
    LET mine(r) == DocOf(r) = doc_id IN Select(rows, mine)

Stored(doc_id) ==
    [collection |-> OfDoc(collection, MetaDoc, doc_id),
     raptor_collection |-> OfDoc(raptor_collection, MetaDoc, doc_id),
     documents |-> OfDoc(documents, RowId, doc_id),
     chunks |-> OfDoc(chunks, RowDoc, doc_id),
     graph_edges |-> OfDoc(graph_edges, RowDoc, doc_id),
     entity_chunks |-> OfDoc(entity_chunks, RowDoc, doc_id)]

\* Two tables hold the same rows, each as often in one as in the other.
SameRows(a, b) == Len(a) = Len(b) /\ \A r \in Range(a) : Count(a, r) = Count(b, r)

BothDeleted == {"sql", "vector"}

ResultDocs == {retrieval.results[i].metadata.doc_id : i \in 1..Len(retrieval.results)}

\* C1: every call of retrieve, whatever the mode, the query, top_k >= 1, the
\* doc_id and the stores, returns a list of at most top_k results no two of
\* which have the same id.
C1_Claim ==
    retrieval.outcome # "none" =>
        /\ retrieval.outcome = "returned"
        /\ Len(retrieval.results) <= retrieval.top_k
        /\ \A i, j \in 1..Len(retrieval.results) :
               i # j => retrieval.results[i].id # retrieval.results[j].id

\* The part of C1 that the calls which return satisfy: at most top_k
\* results, pairwise different ids.
C1_WhenReturned ==
    retrieval.outcome = "returned" =>
        /\ Len(retrieval.results) <= retrieval.top_k
        /\ \A i, j \in 1..Len(retrieval.results) :
               i # j => retrieval.results[i].id # retrieval.results[j].id

C3_Claim ==
    \A p \in Passes :
        (Ended(p) /\ passes[p].doc_id # NONE /\ deleted[p] = {}) =>
            Stored(passes[p].doc_id) \in {Written(p), NothingStored}

\* C4: a pass whose chunk list is empty ends in the ValueError that names
\* its file, with no doc_id made or returned, and the step leaves the six
\* stores as they were.
C4_EmptyChunkList ==
    [][\A p \in Passes :
          (passes[p].pc = "idle" /\ passes'[p].pc # "idle" /\ passes'[p].chunks = <<>>) =>
              /\ passes'[p].pc = "failed"
              /\ passes'[p].error = [type |-> "ValueError", filename |-> Filename(p)]
              /\ passes'[p].doc_id = NONE
              /\ passes'[p].returned = NONE
              /\ stores' = stores]_vars

\* A pass has failed on an empty chunk list while the stores held the
\* records of another document.
C4_Witness ==
    \E p \in Passes :
        /\ passes[p].pc = "failed"
        /\ passes[p].chunks = <<>>
        /\ passes[p].error.type = "ValueError"
        /\ collection # <<>>
        /\ documents # <<>>

\* C5: when all passes have returned, whatever the order of their store
\* calls, every store holds the rows it holds after the passes have run one
\* after the other, and the records of each doc_id are those its pass wrote.
\* Rows are compared as rows; their position in the table and the
\* autoincrement key, which no query reads, are not part of them.
C5_ConcurrentIngestion ==
    (\A p \in Passes : passes[p].pc = "done" /\ deleted[p] = {}) =>
        /\ SameRows(collection, Sequential(MaxPasses).collection)
        /\ SameRows(raptor_collection, Sequential(MaxPasses).raptor_collection)
        /\ SameRows(documents, Sequential(MaxPasses).documents)
        /\ SameRows(chunks, Sequential(MaxPasses).chunks)
        /\ SameRows(graph_edges, Sequential(MaxPasses).graph_edges)
        /\ SameRows(entity_chunks, Sequential(MaxPasses).entity_chunks)
        /\ \A p \in Passes : Stored(DocId(p)) = Written(p)

\* All passes have returned after store calls that no sequential run
\* makes: the last pass wrote its chunks first, the first pass its rows
\* first, and both wrote edges over the same entity pair.
C5_Witness ==
    /\ \A p \in Passes : passes[p].pc = "done" /\ deleted[p] = {}
    /\ collection[1].metadata.doc_id = DocId(MaxPasses)
    /\ documents[1].id = DocId(1)
    /\ \E i, j \in 1..Len(graph_edges) :
           /\ graph_edges[i].doc_id # graph_edges[j].doc_id
           /\ graph_edges[i].source = graph_edges[j].source
           /\ graph_edges[i].target = graph_edges[j].target

\* C6: a retrieve call with doc_id d in vector, graph or hybrid mode returns
\* only chunks of d, and its graph expansion selects only graph_edges and
\* entity_chunks rows of d.
C6_NoLeak ==
    (/\ retrieval.outcome = "returned"
     /\ Given(retrieval.doc_id)
     /\ retrieval.pipeline \in {"vector", "graph", "hybrid"}) =>
        /\ ResultDocs \subseteq {retrieval.doc_id}
        /\ \A r \in retrieval.edges_read \cup retrieval.entity_chunks_read :
               r.doc_id = retrieval.doc_id

\* A graph call scoped to one document has expanded over an entity pair
\* that another document has an edge for, too, and has returned two chunks.
C6_Witness ==
    /\ retrieval.outcome = "returned"
    /\ retrieval.pipeline = "graph"
    /\ Given(retrieval.doc_id)
    /\ Len(retrieval.results) = 2
    /\ retrieval.entity_chunks_read # {}
    /\ \E r \in retrieval.edges_read :
           \E i \in 1..Len(graph_edges) :
               /\ graph_edges[i].doc_id # retrieval.doc_id
               /\ graph_edges[i].source = r.source
               /\ graph_edges[i].target = r.target
    /\ \E i \in 1..Len(entity_chunks) : entity_chunks[i].doc_id # retrieval.doc_id

\* q holds w, letter case apart
C7_Occurs(q, w) ==
    \E i \in 0..(Len(q) - Len(w)) : \A j \in 1..Len(w) : LowerChar(q[i + j]) = w[j]

\* C7: an explicit mode runs its own pipeline whatever the query; without a
\* mode the query goes to graph when it holds a relational word, letter
\* case apart, else to raptor when it holds a summary word, else to vector;
\* "What is the relationship between X and Y" goes to graph.
C7_Routing ==
    called = "retrieve" =>
        /\ ret = IF arg.mode # NONE THEN arg.mode
                 ELSE IF \E w \in GraphWords :
                             C7_Occurs(arg.query, w) THEN "graph"
                 ELSE IF \E w \in RaptorWords :
                             C7_Occurs(arg.query, w) THEN "raptor"
                 ELSE "vector"
        /\ (arg.mode = NONE /\ arg.query = ScenarioC) => ret = "graph"

\* A query without mode that holds a summary word and, in capitals, a
\* relational word has gone to graph.
C7_Witness ==
    /\ called = "retrieve"
    /\ arg.mode = NONE
    /\ arg.query = <<"s", "u", "m", "m", "a", "r", "y", "R", "E", "L", "A", "T", "E", "D">>
    /\ ret = "graph"

\* The key of an item as C8 words it.
C8_Key(item) == IF "id" \in DOMAIN item THEN item.id ELSE Prefix(item.text, 100)

C8_KeysOf(lst) == [i \in 1..Len(lst) |-> C8_Key(lst[i])]

\* 1/(60 + rank), on the scale of RRFOne, summed over the lists that hold
\* the key, rank being the place of the key in the list.
C8_Score(lists, key) ==
    SumSeq([l \in 1..Len(lists) |->
        IF key \in Range(C8_KeysOf(lists[l]))
        THEN RRFOne \div (60 + (CHOOSE i \in 1..Len(lists[l]) :
                                   /\ C8_Key(lists[l][i]) = key
                                   /\ \A j \in 1..(i - 1) : C8_Key(lists[l][j]) # key))
        ELSE 0])

\* C8: the fusion holds one entry per key of the lists, ordered by falling
\* score, the score of a key being the sum of 1/(60 + rank) over the lists
\* that hold it, and equal scores in the order of first appearance.
C8_Claim ==
    called = "reciprocal_rank_fusion" =>
        LET keys == FromKeys(Concat([l \in 1..Len(arg) |-> C8_KeysOf(arg[l])]))
            place(key) == CHOOSE n \in 1..Len(keys) : keys[n] = key
            out == C8_KeysOf(ret)
        IN  /\ Len(out) = Len(keys)
            /\ Range(out) = Range(keys)
            /\ \A i, j \in 1..Len(out) :
                   i < j =>
                       \/ C8_Score(arg, out[i]) > C8_Score(arg, out[j])
                       \/ /\ C8_Score(arg, out[i]) = C8_Score(arg, out[j])
                          /\ place(out[i]) < place(out[j])

\* The part of C8 that holds of lists none of which holds a key twice.
C8_WithoutRepeats ==
    (/\ called = "reciprocal_rank_fusion"
     /\ \A l \in 1..Len(arg) :
            \A i, j \in 1..Len(arg[l]) : i # j => C8_Key(arg[l][i]) # C8_Key(arg[l][j])) =>
        LET keys == FromKeys(Concat([l \in 1..Len(arg) |-> C8_KeysOf(arg[l])]))
            place(key) == CHOOSE n \in 1..Len(keys) : keys[n] = key
            out == C8_KeysOf(ret)
        IN  /\ Len(out) = Len(keys)
            /\ Range(out) = Range(keys)
            /\ \A i, j \in 1..Len(out) :
                   i < j =>
                       \/ C8_Score(arg, out[i]) > C8_Score(arg, out[j])
                       \/ /\ C8_Score(arg, out[i]) = C8_Score(arg, out[j])
                          /\ place(out[i]) < place(out[j])

\* The key of a result as C9 words it: the id, or the first 80 characters
\* of the text when there is no id.
C9_Key(r) ==
    IF "id" \in DOMAIN r /\ r.id # <<>> THEN r.id
    ELSE IF "text" \in DOMAIN r THEN SubSeq(r.text, 1, IF Len(r.text) < 80 THEN Len(r.text) ELSE 80)
    ELSE <<>>

\* The subsequence of R that keeps the first item of each key.
C9_FirstOfEachKey(R) ==
    LET first(i) == \A j \in 1..(i - 1) : C9_Key(R[j]) # C9_Key(R[i])
        kept == {i \in 1..Len(R) : first(i)}
        nth(n) == CHOOSE i \in kept : Cardinality({j \in kept : j < i}) = n - 1
    IN  [n \in 1..Cardinality(kept) |-> R[nth(n)]]

\* C9: dedup(R) is the subsequence of R that keeps the first item of each
\* key, and dedup(dedup(R)) = dedup(R).
C9_Dedup ==
    /\ called \in {"once", "twice"} => ret[1] = C9_FirstOfEachKey(arg)
    /\ called = "twice" => ret[2] = ret[1]

\* Deduplication has run twice on a list whose third item has no id and
\* shares its first 80 characters with the first.
C9_Witness ==
    /\ called = "twice"
    /\ arg = <<Item_short1, Item_a, Item_short2>>
    /\ ret[1] = <<Item_short1, Item_a>>

\* The tree nodes of one level, of doc_id when it is given, nearest first:
\* the query that C10 has raptor mode make.
C10_Level(query, top_k, level, doc_id) ==
    LET wanted(r) == /\ r.metadata.raptor_level = ToString(level)
                     /\ (Given(doc_id) => r.metadata.doc_id = doc_id)
    IN  QueryCollection(raptor_collection, query, Max(8, top_k * 2), wanted)

\* C10: a raptor call queries level 1, then level 0, each within doc_id
\* when given, returns the fusion of the non-empty levels cut to top_k, and
\* returns the vector search when neither level has a hit.
C10_Claim ==
    retrieval.pipeline = "raptor" =>
        LET levels == Select(<<C10_Level(retrieval.query, retrieval.top_k, 1, retrieval.doc_id),
                               C10_Level(retrieval.query, retrieval.top_k, 0, retrieval.doc_id)>>,
                             NonEmpty)
        IN  /\ retrieval.outcome = "returned"
            /\ retrieval.results =
                   IF levels = <<>>
                   THEN search(collection, retrieval.query, retrieval.top_k, retrieval.doc_id)
                   ELSE Prefix(deduplicate_results(reciprocal_rank_fusion(levels)),
                               retrieval.top_k)

\* C11: a failing collaborator call never leaves retrieve.  When a graph
\* store call or the fetch by ids fails, graph and hybrid return what they
\* return with an empty expansion; when the tree query fails, raptor returns
\* the plain vector search result.
C11_Claim ==
    called = "retrieve" =>
        /\ retrieval.outcome = "returned"
        /\ retrieval.pipeline = "graph" /\ arg # "search_raptor" =>
               retrieval.results =
                   retrieve_graph(collection, <<>>, <<>>, retrieval.query, retrieval.top_k,
                                  retrieval.doc_id, NoFault).results
        /\ retrieval.pipeline = "hybrid" /\ arg # "search_raptor" =>
               retrieval.results =
                   retrieve_hybrid(collection, <<>>, <<>>, retrieval.query, retrieval.top_k,
                                   retrieval.doc_id, NoFault).results
        /\ retrieval.pipeline = "raptor" /\ arg = "search_raptor" =>
               retrieval.results =
                   search(collection, retrieval.query, retrieval.top_k, retrieval.doc_id)

\* The part of C11 that the code has: get_by_ids catches the exception of
\* collection.get, so graph and hybrid return the ranking of an empty
\* expansion.
C11_FetchByIdsCaught ==
    called = "retrieve" /\ arg = "collection.get" =>
        /\ retrieval.pipeline = "graph" =>
               /\ retrieval.outcome = "returned"
               /\ retrieval.results =
                      retrieve_graph(collection, <<>>, <<>>, retrieval.query, retrieval.top_k,
                                     retrieval.doc_id, NoFault).results
        /\ retrieval.pipeline = "hybrid" =>
               /\ retrieval.outcome = "returned"
               /\ retrieval.results =
                      retrieve_hybrid(collection, <<>>, <<>>, retrieval.query, retrieval.top_k,
                                      retrieval.doc_id, NoFault).results

\* A graph retrieval whose get_related_entities call raised.
C11_Propagates ==
    /\ called = "retrieve"
    /\ arg = "get_related_entities"
    /\ retrieval.pipeline = "graph"
    /\ retrieval.outcome = "raised"
    /\ collection # <<>>

\* The ids of a result list, in its order.
C12_Ids(results) == [i \in 1..Len(results) |-> results[i].id]

\* The entities of the query and of the candidates that the graph call of
\* the retrieval extracts: graph mode fetches max(10, 2 * top_k) candidates,
\* hybrid mode calls the graph pipeline with that number as its top_k.
C12_Entities ==
    LET fetch_k == Max(10, retrieval.top_k * 2)
        n == IF retrieval.pipeline = "hybrid" THEN Max(10, fetch_k * 2) ELSE fetch_k
    IN  Range(GraphEntities(search(collection, retrieval.query, n, retrieval.doc_id),
                            retrieval.query))

\* No row of graph_edges and no row of entity_chunks names one of them.
C12_NoGraphMatch ==
    /\ \A i \in 1..Len(graph_edges) :
           graph_edges[i].source \notin C12_Entities /\ graph_edges[i].target \notin C12_Entities
    /\ \A i \in 1..Len(entity_chunks) : entity_chunks[i].entity \notin C12_Entities

\* C12: when the graph store holds no edge and no entity-chunk entry
\* matching the entities of the query or of the candidates, graph and
\* hybrid retrieval return the ids of the first top_k vector candidates for
\* the query and doc_id, in their order.
C12_VectorLeg ==
    (/\ retrieval.outcome = "returned"
     /\ retrieval.pipeline \in {"graph", "hybrid"}
     /\ C12_NoGraphMatch) =>
        C12_Ids(retrieval.results)
            = C12_Ids(search(collection, retrieval.query, retrieval.top_k, retrieval.doc_id))

\* A hybrid call has returned two results from a collection that holds
\* chunks with entities, while the graph tables name none of them.
C12_Witness ==
    /\ retrieval.outcome = "returned"
    /\ retrieval.pipeline = "hybrid"
    /\ C12_NoGraphMatch
    /\ C12_Entities # {}
    /\ Len(retrieval.results) = 2
    /\ retrieval.results[1].text # retrieval.results[2].text

\* C13: vector retrieval on stores into which no document has been
\* ingested returns the empty list and raises nothing, for every query and
\* top_k, with a doc_id and without.
C13_EmptyStore ==
    (/\ retrieval.pipeline = "vector"
     /\ \A p \in Passes : Stored(DocId(p)) = NothingStored) =>
        /\ retrieval.outcome = "returned"
        /\ retrieval.results = <<>>
        /\ retrieval.error = NONE

\* A vector call scoped to a document has returned while all stores were
\* empty and no pass had written anything.
C13_Witness ==
    /\ retrieval.pipeline = "vector"
    /\ retrieval.outcome = "returned"
    /\ Given(retrieval.doc_id)
    /\ retrieval.top_k = MaxTopK
    /\ collection = <<>>
    /\ \A p \in Passes : passes[p].pc \in {"idle", "failed"} /\ Stored(DocId(p)) = NothingStored

\* The entities of the i-th chunk of the input, as a set.
C14_EntitiesOf(i) == Range(ChunkEntities(MakeChunks(arg.texts)[i]))

C14_Entities == UNION {C14_EntitiesOf(i) : i \in 1..Len(arg.texts)}

\* The chunks whose entity list holds both a and b.
C14_Together(a, b) ==
    {i \in 1..Len(arg.texts) : a \in C14_EntitiesOf(i) /\ b \in C14_EntitiesOf(i)}

\* The edges of the output between a and b, in either order.
C14_EdgesOf(a, b) ==
    {n \in 1..Len(ret.edges) : {ret.edges[n][1], ret.edges[n][2]} = {a, b}}

\* C14: the weight of the edge of an unordered pair of entities is the
\* number of chunks whose entity list holds both, one per chunk however
\* often the chunk names them; a pair that no chunk holds has no edge.
C14_Weights ==
    called = "build_cooccurrence_edges" =>
        /\ \A n \in 1..Len(ret.edges) :
               /\ ret.edges[n][1] \in C14_Entities
               /\ ret.edges[n][2] \in C14_Entities
               /\ ret.edges[n][1] # ret.edges[n][2]
        /\ \A a, b \in C14_Entities :
               a # b =>
                   IF C14_Together(a, b) = {} THEN C14_EdgesOf(a, b) = {}
                   ELSE /\ Cardinality(C14_EdgesOf(a, b)) = 1
                        /\ \A n \in C14_EdgesOf(a, b) :
                               ret.edges[n][3] = Cardinality(C14_Together(a, b))

\* The pair Paris, Rome has weight 2 from two chunks, one of which names
\* Paris twice.
C14_Witness ==
    /\ called = "build_cooccurrence_edges"
    /\ Len(arg.texts) = 2
    /\ arg.texts[1] = <<"P", "a", "r", "i", "s", ",", " ", "R", "o", "m", "e", ",", " ", "P", "a", "r", "i", "s">>
    /\ arg.texts[2] = T_paris_rome
    /\ ret.edges = <<<<<<"P", "a", "r", "i", "s">>, <<"R", "o", "m", "e">>, 2>>>>

\* C15: the source of an emitted edge is before its target in
\* lexicographic order, so no edge is a self-loop, and no two edges of one
\* document have the same unordered pair; the same holds of the rows that
\* add_graph_edges stores.
C15_OrderedUnique ==
    called = "build_cooccurrence_edges" =>
        /\ \A n \in 1..Len(ret.edges) : StrLess(ret.edges[n][1], ret.edges[n][2])
        /\ \A n, m \in 1..Len(ret.edges) :
               n # m => {ret.edges[n][1], ret.edges[n][2]} # {ret.edges[m][1], ret.edges[m][2]}
        /\ Len(ret.rows) = Len(ret.edges)
        /\ \A n \in 1..Len(ret.rows) : StrLess(ret.rows[n].source, ret.rows[n].target)
        /\ \A n, m \in 1..Len(ret.rows) :
               n # m => {ret.rows[n].source, ret.rows[n].target}
                            # {ret.rows[m].source, ret.rows[m].target}

\* Chunks that name Rome and Paris in both orders, and a third entity, have
\* given more than one edge.
C15_Witness ==
    /\ called = "build_cooccurrence_edges"
    /\ T_paris_rome \in Range(arg.texts)
    /\ <<"R", "o", "m", "e", ",", " ", "P", "a", "r", "i", "s">> \in Range(arg.texts)
    /\ Len(ret.rows) >= 2

\* The id string of the chunk at position i of the input.
C16_IdOf(i) ==
    IF arg.doc_id = NONE THEN ToString(i - 1) ELSE arg.doc_id \o "_" \o ToString(i - 1)

\* The ids of the chunks whose entity list holds e, in chunk order.
RECURSIVE C16_IdsUpTo(_, _)
C16_IdsUpTo(e, n) ==
    IF n = 0 THEN <<>>
    ELSE C16_IdsUpTo(e, n - 1) \o (IF e \in C14_EntitiesOf(n) THEN <<C16_IdOf(n)>> ELSE <<>>)

\* C16: the entity-chunk index has one entry for each entity of a chunk, no
\* other entry, and the entry lists the ids of the chunks whose entity list
\* holds the entity, in chunk order.  For the three chunks of the scenario
\* Paris maps to the chunks 0, 1, 2 and the edge Eiffel Tower, Paris has
\* the weight 1 that chunk 1 gives it.
C16_Index ==
    called = "build_cooccurrence_edges" =>
        /\ {ret.entity_chunks[n].entity : n \in 1..Len(ret.entity_chunks)} = C14_Entities
        /\ \A n, m \in 1..Len(ret.entity_chunks) :
               n # m => ret.entity_chunks[n].entity # ret.entity_chunks[m].entity
        /\ \A n \in 1..Len(ret.entity_chunks) :
               /\ Len(ret.entity_chunks[n].entity) > 1
               /\ ret.entity_chunks[n].chunk_ids
                      = C16_IdsUpTo(ret.entity_chunks[n].entity, Len(arg.texts))
        /\ arg.texts = ScenarioA /\ arg.doc_id = DocId(1) =>
               /\ \E n \in 1..Len(ret.entity_chunks) :
                      /\ ret.entity_chunks[n].entity = <<"P", "a", "r", "i", "s">>
                      /\ ret.entity_chunks[n].chunk_ids = <<"doc1_0", "doc1_1", "doc1_2">>
               /\ \E n \in 1..Len(ret.edges) :
                      ret.edges[n] = <<<<"E", "i", "f", "f", "e", "l", " ", "T", "o", "w", "e", "r">>, <<"P", "a", "r", "i", "s">>, 1>>
               /\ C14_Together(<<"E", "i", "f", "f", "e", "l", " ", "T", "o", "w", "e", "r">>, <<"P", "a", "r", "i", "s">>) = {2}

\* The builder has run on the three chunks of the scenario.
C16_Witness ==
    /\ called = "build_cooccurrence_edges"
    /\ arg.texts = ScenarioA
    /\ arg.doc_id = DocId(1)
    /\ Len(ret.entity_chunks) = 3

\* The nodes of the returned tree at a level, in their order.
C17_Level(level) ==
    LET atLevel(node) == node.metadata.raptor_level = level IN Select(ret, atLevel)

\* C17: for every input the builder returns one level-0 node per chunk, the
\* i-th with the text of the i-th chunk.
C17_Claim ==
    called = "build_raptor_tree" =>
        /\ Len(C17_Level(0)) = Len(arg.chunks)
        /\ \A i \in 1..Len(arg.chunks) : C17_Level(0)[i].text = arg.chunks[i].text

\* What the code has of C17: one level-0 node for each pair of
\* zip(chunks, embeddings).
C17_OnePerPair ==
    called = "build_raptor_tree" =>
        /\ Len(C17_Level(0)) = Min(Len(arg.chunks), Len(arg.embeddings))
        /\ \A i \in 1..Len(C17_Level(0)) :
               /\ C17_Level(0)[i].text = arg.chunks[i].text
               /\ C17_Level(0)[i].chunk_id = "doc1_" \o ToString(i - 1)

\* Two chunks with one embedding have given one level-0 node.
C17_FewerEmbeddings ==
    /\ called = "build_raptor_tree"
    /\ Len(arg.chunks) = 2
    /\ Len(arg.embeddings) = 1
    /\ Len(C17_Level(0)) = 1

\* The positions that the labels put into cluster c.
C18_Members(c) == {i \in 1..Len(arg.labels) : arg.labels[i] = c}

\* The clusters of the KMeans call.
C18_Clusters == 0..(Min(arg.n_clusters, Len(arg.chunks)) - 1)

\* C18: the number of level-1 nodes is at most min(n_clusters, chunk
\* count), and zero when the chunk count is at most n_clusters; every
\* level-1 node is the node of a non-empty cluster, and no cluster has two.
C18_Level1Count ==
    called = "build_raptor_tree" =>
        /\ Len(C17_Level(1)) <= Min(arg.n_clusters, Len(arg.chunks))
        /\ Len(arg.chunks) <= arg.n_clusters => C17_Level(1) = <<>>
        /\ \A n \in 1..Len(C17_Level(1)) :
               \E c \in C18_Clusters :
                   /\ C17_Level(1)[n].chunk_id = "doc1_L1_" \o ToString(c)
                   /\ C18_Members(c) # {}
        /\ \A n, m \in 1..Len(C17_Level(1)) :
               n # m => C17_Level(1)[n].chunk_id # C17_Level(1)[m].chunk_id

\* Three chunks in two clusters, one of them empty, have given one level-1
\* node.
C18_Witness ==
    /\ called = "build_raptor_tree"
    /\ Len(arg.chunks) = 3
    /\ arg.n_clusters = 2
    /\ Len(arg.embeddings) = 3
    /\ C18_Members(0) = {}
    /\ Len(C17_Level(1)) = 1

\* The cluster of a level-1 node.
C20_ClusterOf(node) == CHOOSE c \in C18_Clusters : node.chunk_id = "doc1_L1_" \o ToString(c)

\* The distance of the embedding at position i to the mean of the
\* embeddings at the positions M, times the size of M.
C20_Distance(i, M) ==
    LET total == SumSeq([j \in 1..Len(arg.embeddings) |->
                            IF j \in M THEN arg.embeddings[j] ELSE 0])
    IN  Abs(Cardinality(M) * arg.embeddings[i] - total)

C19_Stored(p, level) ==
    LET mine(r) == r.metadata.doc_id = DocId(p) /\ r.metadata.raptor_level = ToString(level)
    IN  Select(raptor_collection, mine)

\* C19: for every document whose tree ingestion has stored, the number of
\* level-1 nodes is at most the configured cluster count, which is at most
\* the number of level-0 nodes, and the document has at least 2 chunks; no
\* tree node is stored for a document of fewer than 2 chunks.
C19_Claim ==
    \A p \in Passes :
        /\ C19_Stored(p, 0) \o C19_Stored(p, 1) # <<>> =>
               /\ Len(C19_Stored(p, 1)) <= N_CLUSTERS
               /\ N_CLUSTERS <= Len(C19_Stored(p, 0))
               /\ Len(passes[p].chunks) >= 2
        /\ Len(passes[p].chunks) < 2 => C19_Stored(p, 0) \o C19_Stored(p, 1) = <<>>

\* What the code has of C19: a stored tree is that of a document of at
\* least 2 chunks, with one level-0 node per chunk and at most N_CLUSTERS
\* level-1 nodes.
C19_TreeFromTwoChunks ==
    \A p \in Passes :
        /\ C19_Stored(p, 0) \o C19_Stored(p, 1) # <<>> =>
               /\ Len(C19_Stored(p, 1)) <= N_CLUSTERS
               /\ Len(C19_Stored(p, 0)) = Len(passes[p].chunks)
               /\ Len(passes[p].chunks) >= 2
        /\ Len(passes[p].chunks) < 2 => C19_Stored(p, 0) \o C19_Stored(p, 1) = <<>>

\* The tree of a document of 2 chunks is stored: 2 level-0 nodes, fewer
\* than the 4 clusters configured.
C19_SmallTree ==
    \E p \in Passes :
        /\ passes[p].pc = "done"
        /\ Len(passes[p].chunks) = 2
        /\ Len(C19_Stored(p, 0)) = 2
        /\ C19_Stored(p, 1) = <<>>

-----------------------------------------------------------------------------
(* The chunker.                                                            *)

\* chunk_document has returned ret.chunks
ChunksReturned == called = "returned"

\* C21: under both strategies the chunks returned carry the chunk indices
\* 0, 1, 2, ... without a gap, a skipped window or an empty block using up
\* no index, and the chunk_index of a chunk's metadata is its position in
\* the list, whatever the document's own metadata say.
C21_Sequential ==
    ChunksReturned =>
        \A n \in 1..Len(ret.chunks) :
            /\ ret.chunks[n].chunk_id = n - 1
            /\ ret.chunks[n].metadata.chunk_index = n - 1

\* Two chunks around a skipped window, from a document whose metadata have
\* a chunk_index of their own.
C21_Witness ==
    /\ ChunksReturned
    /\ arg.strategy = "fixed"
    /\ arg.text = <<"a", " ", "a">>
    /\ arg.chunk_size = 1
    /\ arg.chunk_overlap = 0
    /\ "chunk_index" \in DOMAIN arg.metadata
    /\ Len(ret.chunks) = 2

\* C22: every chunk produced, under either strategy and for any parsed
\* document, has a text that is not empty after its whitespace is trimmed.
C22_Claim ==
    ChunksReturned => \A n \in 1..Len(ret.chunks) : Strip(ret.chunks[n].text) # <<>>

\* The part of C22 the code has: the chunks of the fixed strategy, and of the
\* dynamic one on a text without structure or on blocks none of which is
\* whitespace only, have text.
C22_FixedAndParagraphs ==
    (/\ ChunksReturned
     /\ arg.strategy = "dynamic" =>
            \A n \in 1..Len(arg.structure) : arg.structure[n].text = <<>> \/ ~Blank(arg.structure[n].text))
    => \A n \in 1..Len(ret.chunks) : Strip(ret.chunks[n].text) # <<>>

\* The dynamic strategy on a structure of one block whose text is a blank
\* has returned a chunk.
C22_BlankBlock ==
    /\ ChunksReturned
    /\ arg.strategy = "dynamic"
    /\ Len(arg.structure) = 1
    /\ arg.structure[1].text = <<" ">>
    /\ Len(ret.chunks) = 1
    /\ Blank(ret.chunks[1].text)

-----------------------------------------------------------------------------
(* The identity of a chunk in the stores.                                  *)

\* The ids of the rows
C23_Ids(rows) == [n \in 1..Len(rows) |-> rows[n].id]

\* {doc_id}_{chunk_index} of the chunks of pass p, in their order
C23_Identities(p) ==
    [n \in 1..Len(passes[p].chunks) |->
        passes[p].doc_id \o "_" \o ToString(passes[p].chunks[n].metadata.chunk_index)]

\* Pass p has ended without an error and its document was not deleted
C23_Ingested(p) == passes[p].pc = "done" /\ deleted[p] = {}

\* C23: after the successful ingestion of a document a chunk has the one
\* identity {doc_id}_{chunk_index} in every store (the id in the vector
\* index, the id of the relational chunk row, the id of the level-0 tree
\* node, the chunk id in the entity-chunk index), so every chunk id in the
\* entity-chunk index of the document is fetched by id from the vector index.
C23_OneIdentity ==
    \A p \in Passes :
        C23_Ingested(p) =>
            /\ C23_Ids(OfDoc(collection, MetaDoc, passes[p].doc_id)) = C23_Identities(p)
            /\ C23_Ids(OfDoc(chunks, RowDoc, passes[p].doc_id)) = C23_Identities(p)
            /\ C19_Stored(p, 0) # <<>> => C23_Ids(C19_Stored(p, 0)) = C23_Identities(p)
            /\ \A n \in 1..Len(entity_chunks) :
                   entity_chunks[n].doc_id = passes[p].doc_id =>
                       /\ entity_chunks[n].chunk_id \in Range(C23_Identities(p))
                       /\ Len(get_by_ids(collection, <<entity_chunks[n].chunk_id>>, NoFault)) = 1

\* A document of two chunks is ingested, with its tree and with rows in the
\* entity-chunk index.
C23_Witness ==
    \E p \in Passes :
        /\ C23_Ingested(p)
        /\ Len(passes[p].chunks) = 2
        /\ C19_Stored(p, 0) # <<>>
        /\ \E n \in 1..Len(entity_chunks) : entity_chunks[n].doc_id = passes[p].doc_id

-----------------------------------------------------------------------------
(* The windows of the fixed strategy.                                      *)

\* _chunk_fixed has returned from a call with 0 <= overlap < chunk_size
C24_Called ==
    /\ ChunksReturned
    /\ arg.strategy = "fixed"
    /\ arg.chunk_overlap < arg.chunk_size

\* The distance S - O of two window starts
C24_Stride == arg.chunk_size - arg.chunk_overlap

\* The number of j = 0, 1, 2, ... with j * (S - O) < len(text)
C24_Count == Cardinality({j \in 0..Len(arg.text) : j * C24_Stride < Len(arg.text)})

\* The window text[j * (S - O) : j * (S - O) + S]
C24_WindowAt(j) ==
    SubSeq(arg.text, j * C24_Stride + 1, Min(j * C24_Stride + arg.chunk_size, Len(arg.text)))

\* The j whose window is not whitespace only, in their order
C24_Kept ==
    LET HasText(j) == \E m \in 1..Len(C24_WindowAt(j)) : ~IsSpace(C24_WindowAt(j)[m])
    IN  Select([k \in 1..C24_Count |-> k - 1], HasText)

\* C24: with 0 <= O < S the fixed strategy emits, in order, exactly the
\* windows text[j * (S - O) : j * (S - O) + S] that are not whitespace only,
\* and each character of the text that lies in such a window is given back,
\* at its place, by a chunk laid at the offset of its window.
C24_Windows ==
    C24_Called =>
        /\ [n \in 1..Len(ret.chunks) |-> ret.chunks[n].text]
               = [n \in 1..Len(C24_Kept) |-> C24_WindowAt(C24_Kept[n])]
        /\ \A c \in 1..Len(arg.text) :
               (\E k \in 1..Len(C24_Kept) :
                    c - C24_Kept[k] * C24_Stride \in 1..Len(C24_WindowAt(C24_Kept[k])))
               => \E n \in 1..Len(ret.chunks) :
                      /\ c - C24_Kept[n] * C24_Stride \in 1..Len(ret.chunks[n].text)
                      /\ ret.chunks[n].text[c - C24_Kept[n] * C24_Stride] = arg.text[c]

\* Overlapping windows, one of them whitespace only and left out, and a
\* character of the text that no chunk gives back.
C24_Witness ==
    /\ C24_Called
    /\ arg.chunk_overlap >= 1
    /\ Len(ret.chunks) >= 2
    /\ Len(C24_Kept) < C24_Count
    /\ \E c \in 1..Len(arg.text) :
           \A n \in 1..Len(ret.chunks) :
               c - C24_Kept[n] * C24_Stride \notin 1..Len(ret.chunks[n].text)

-----------------------------------------------------------------------------
(* The end of the fixed strategy's loop.                                   *)

\* C25: the fixed strategy returns for every text when 0 <= overlap <
\* chunk_size, the window start growing with every iteration, a skip
\* included; with overlap >= chunk_size and a text that is not empty the
\* start never moves forward and the call never returns.
C25_Termination ==
    /\ (called = "_chunk_fixed" /\ arg.chunk_overlap < arg.chunk_size) ~> ChunksReturned
    /\ [][(/\ called = "_chunk_fixed"
           /\ called' = "_chunk_fixed"
           /\ arg.chunk_overlap < arg.chunk_size) => ret'.start > ret.start]_vars
    /\ []((/\ arg.strategy = "fixed"
           /\ arg.chunk_overlap >= arg.chunk_size
           /\ arg.text # <<>>)
          => /\ ~ChunksReturned
             /\ called = "_chunk_fixed" => ret.start <= 0)

\* With overlap = chunk_size the loop has appended the first window once
\* more than the text has characters, and is where it began.
C25_Witness ==
    /\ called = "_chunk_fixed"
    /\ arg.chunk_overlap = arg.chunk_size
    /\ ret.start = 0
    /\ Len(ret.chunks) = Len(arg.text) + 1
    /\ Len(arg.text) = MaxChunkText

-----------------------------------------------------------------------------
(* The dynamic strategy.                                                   *)

\* The block of the structure the loop is at is a heading
C26_AtHeading ==
    /\ called = "_chunk_from_structure"
    /\ ret.i <= Len(ret.blocks)
    /\ ret.blocks[ret.i].type = "heading"

\* The last block before position i that has text
C26_Before(i) ==
    CHOOSE b \in 1..(i - 1) :
        /\ ret.blocks[b].text # <<>>
        /\ \A o \in (b + 1)..(i - 1) : ret.blocks[o].text = <<>>

\* C26: when a heading block makes the dynamic strategy flush, the flushed
\* chunk ends with the block before the heading and the heading is the first
\* block of the next chunk; the heading is not the last block of the chunk
\* it closes.
C26_HeadingOpens ==
    [][(C26_AtHeading /\ Len(ret'.chunks) > Len(ret.chunks)) =>
           /\ ret.current_chunk # <<>>
           /\ ret'.chunks[Len(ret'.chunks)].text = JoinBlank(ret.current_chunk)
           /\ ret'.made[Len(ret'.made)] = ret.current_blocks
           /\ ret.current_blocks[Len(ret.current_blocks)] = C26_Before(ret.i)
           /\ ret.i \notin Range(ret'.made[Len(ret'.made)])
           /\ ret'.current_chunk = <<ret.blocks[ret.i].text>>
           /\ ret'.current_blocks = <<ret.i>>]_vars

\* A heading has closed a chunk of two blocks and is alone in the buffer.
C26_Witness ==
    /\ called = "_chunk_from_structure"
    /\ ret.i > 1
    /\ ret.blocks[ret.i - 1].type = "heading"
    /\ ret.current_blocks = <<ret.i - 1>>
    /\ ret.made # <<>>
    /\ Len(ret.made[Len(ret.made)]) = 2

\* The texts of the blocks at the positions bs
C27_Texts(bs) == [n \in 1..Len(bs) |-> ret.blocks[bs[n]].text]

\* The size of a chunk of these blocks: the sum of len(block text) + 2
C27_Size(bs) == SumSeq([n \in 1..Len(bs) |-> Len(ret.blocks[bs[n]].text) + 2])

\* C27: a chunk the dynamic strategy makes of two or more blocks has a size,
\* the sum of len(block text) + 2 over its blocks, of at most target_size; a
\* chunk whose size is over target_size is made of exactly one block.
C27_WithinTarget ==
    (called = "_chunk_from_structure" \/ (ChunksReturned /\ arg.strategy = "dynamic")) =>
        /\ Len(ret.made) = Len(ret.chunks)
        /\ \A k \in 1..Len(ret.made) :
               /\ ret.chunks[k].text = JoinBlank(C27_Texts(ret.made[k]))
               /\ Len(ret.made[k]) >= 2 => C27_Size(ret.made[k]) <= arg.chunk_size
               /\ C27_Size(ret.made[k]) > arg.chunk_size => Len(ret.made[k]) = 1

\* A chunk of two blocks and a chunk of one block that is over the target
\* size have been returned.
C27_Witness ==
    /\ ChunksReturned
    /\ arg.strategy = "dynamic"
    /\ \E k \in 1..Len(ret.made) : Len(ret.made[k]) = 2
    /\ \E k \in 1..Len(ret.made) : C27_Size(ret.made[k]) > arg.chunk_size

\* C30: the dynamic strategy loses, repeats and moves no block: the texts
\* of the returned chunks joined with "\n\n" are the texts of the blocks
\* that are not empty, in their order, joined with "\n\n".
C30_SameContent ==
    (ChunksReturned /\ arg.strategy = "dynamic") =>
        JoinBlank([n \in 1..Len(ret.chunks) |-> ret.chunks[n].text])
            = JoinBlank(Select([n \in 1..Len(ret.blocks) |-> ret.blocks[n].text], NonEmpty))

\* Two chunks have been returned from a structure with an empty block, the
\* second chunk begun by a paragraph that did not fit into the first.
C30_Witness ==
    /\ ChunksReturned
    /\ arg.strategy = "dynamic"
    /\ Len(ret.chunks) = 2
    /\ \E n \in 1..Len(arg.structure) : arg.structure[n].text = <<>>
    /\ ret.blocks[ret.made[2][1]].type = "paragraph"

-----------------------------------------------------------------------------
(* The analyzer.                                                           *)

\* The population standard deviation of the lengths exceeds half their mean:
\* variance > mean ** 2 / 4, with variance = sum(x ** 2) / n - mean ** 2 and
\* mean = sum(x) / n, is 4 * n * sum(x ** 2) > 5 * sum(x) ** 2
C28_Deviates(lengths) ==
    4 * Len(lengths) * SumSquares(lengths) > 5 * SumSeq(lengths) * SumSeq(lengths)

\* C28: analyze_document returns dynamic exactly when heading_count >= 2, or
\* len(text) > 5000, or there is a block and the population standard
\* deviation of the block lengths exceeds 0.5 times their mean; in every
\* other case, the empty document included, it returns fixed.
C28_Claim ==
    called = "analyze_document" =>
        ret = IF \/ HeadingCount(arg) >= 2
                 \/ Len(arg.text) > 5000
                 \/ Len(ParaLengths(arg)) > 0 /\ C28_Deviates(ParaLengths(arg))
              THEN "dynamic" ELSE "fixed"

\* The part of C28 the code has: the decision is the stated one unless the
\* deviation is exactly half the mean.
C28_OffTheBoundary ==
    (called = "analyze_document" /\ Excess(ParaLengths(arg)) # 0) =>
        ret = IF \/ HeadingCount(arg) >= 2
                 \/ Len(arg.text) > 5000
                 \/ Len(ParaLengths(arg)) > 0 /\ C28_Deviates(ParaLengths(arg))
              THEN "dynamic" ELSE "fixed"

\* Five paragraphs of the lengths 1, 5, 5, 8, 9 (mean 5.6, deviation 2.8)
\* have been analyzed as dynamic.
C28_AtTheBoundary ==
    /\ called = "analyze_document"
    /\ HeadingCount(arg) = 0
    /\ ParaLengths(arg) = <<1, 5, 5, 8, 9>>
    /\ ret = "dynamic"

-----------------------------------------------------------------------------
(* The neighbours of an entity.                                            *)

\* The rows of the table that have the entity at one end, within doc_id
C29_Rows ==
    LET Mine(r) ==
            /\ r.source = arg.entity \/ r.target = arg.entity
            /\ arg.doc_id # NONE => r.doc_id = arg.doc_id
    IN  Select(ret.rows, Mine)

\* The entity at the other end of the row
C29_Neighbour(r) == IF r.source = arg.entity THEN r.target ELSE r.source

\* The result is the top_k heaviest neighbours of the entity: as long as
\* top_k allows, sorted by weight descending, each item a row of the
\* entity, no row left out that is heavier than an item, without the entity
\* and without a neighbour twice.
C29_TopNeighbours ==
    /\ Len(ret.related)
           = Min(arg.top_k, Cardinality({C29_Neighbour(C29_Rows[n]) : n \in 1..Len(C29_Rows)}))
    /\ \A i \in 1..Len(ret.related) :
           /\ \E n \in 1..Len(C29_Rows) :
                  /\ C29_Neighbour(C29_Rows[n]) = ret.related[i][1]
                  /\ C29_Rows[n].weight = ret.related[i][2]
           /\ \A n \in 1..Len(C29_Rows) :
                  C29_Rows[n].weight > ret.related[i][2] =>
                      \E j \in 1..Len(ret.related) :
                          ret.related[j][1] = C29_Neighbour(C29_Rows[n])
           /\ ret.related[i][1] # arg.entity
    /\ \A i, j \in 1..Len(ret.related) :
           /\ i < j => ret.related[i][2] >= ret.related[j][2]
           /\ i # j => ret.related[i][1] # ret.related[j][1]

\* C29: get_related_entities(e, top_k, doc_id) returns the top_k neighbours
\* of e of the highest weight, over the edges that leave e and the edges
\* that enter it, within doc_id, sorted by weight descending, without e and
\* without a neighbour twice.
C29_Claim == called = "get_related_entities" => C29_TopNeighbours

\* The part of C29 the code has: the same for a doc_id that is given.
C29_WithinDocument ==
    (called = "get_related_entities" /\ arg.doc_id # NONE) => C29_TopNeighbours

\* Without a doc_id, the edge Paris - Rome of two documents gives Rome twice.
C29_Twice ==
    /\ called = "get_related_entities"
    /\ arg.doc_id = NONE
    /\ Len(ret.related) = 2
    /\ ret.related[1][1] = ret.related[2][1]

\* Within a document the two directions, each cut to top_k, are merged and
\* cut again.
C29_BothDirections ==
    /\ called = "get_related_entities"
    /\ arg.doc_id # NONE
    /\ arg.top_k = 2
    /\ Len(C29_Rows) = 3
    /\ \E n \in 1..3 : C29_Rows[n].source = arg.entity
    /\ \E n \in 1..3 : C29_Rows[n].target = arg.entity

=============================================================================
